---- MODULE Spec2Model ----
(***************************************************************************)
(* A model of scripts/bwsm_secret.py: the command-line client for          *)
(* Bitwarden Secrets Manager.  One invocation of the script is one run:    *)
(* the handler of the chosen subcommand executes up to its next call into  *)
(* the SDK (or its next read of the terminal) and continues when that      *)
(* call returns.                                                           *)
(*                                                                         *)
(* A Python string is modelled as the sequence of its characters, each a   *)
(* one-character string, so that strip(), lower(), split(), startswith()   *)
(* and the substring tests are computed as the code computes them.         *)
(* Python's None is the value None below.                                  *)
(***************************************************************************)
EXTENDS Integers, Sequences, FiniteSets, TLC

VARIABLES
  cmd,       \* the subcommand, sys.argv[1]
  args,      \* the argparse.Namespace of the invocation
  env,       \* the process environment (the four BWS_ variables)
  store,     \* the secrets the backend holds, in listing order
  phase,     \* "ready" (not started), "running" (waiting on a call), "done"
  trace,     \* the calls that have returned, in order, each with its response
  pending,   \* the call the handler is waiting on, or NoCall
  exitCode,  \* the handler's return value once done, else -1
  stdout,    \* the lines printed to standard output
  stderr,    \* the debug lines printed to standard error
  caught,    \* the exception the handler's except clauses caught, or NoExc
  cfg,       \* the tuple resolve_config returned (specification SpecCfg)
  codes      \* exit code of each handler's except clauses (specification SpecErr)

vars == <<cmd, args, env, store, phase, trace, pending, exitCode, stdout, stderr, caught, cfg, codes>>

----------------------------------------------------------------------------
(* Strings *)

None == <<"None">>

\* Python truthiness of an Optional[str]: neither None nor "".
Truthy(s) == s # None /\ s # <<>>

\* Python's `a or b` on Optional[str].
Or(a, b) == IF Truthy(a) THEN a ELSE b

Rep(n, c) == [i \in 1..n |-> c]

UpperChars == <<"A","B","C","D","E","F","G","H","I","J","K","L","M",
                "N","O","P","Q","R","S","T","U","V","W","X","Y","Z">>
LowerChars == <<"a","b","c","d","e","f","g","h","i","j","k","l","m",
                "n","o","p","q","r","s","t","u","v","w","x","y","z">>

LowerChar(c) ==
  IF \E i \in 1..Len(UpperChars) : UpperChars[i] = c
  THEN LowerChars[CHOOSE i \in 1..Len(UpperChars) : UpperChars[i] = c]
  ELSE c

\* str.lower()
Lower(s) == [i \in 1..Len(s) |-> LowerChar(s[i])]

Whitespace == {" ", "\t", "\n", "\r"}

\* str.lstrip(): from the first character that is not whitespace on.
LStrip(s) ==
  IF \A i \in 1..Len(s) : s[i] \in Whitespace THEN <<>>
  ELSE SubSeq(s, CHOOSE i \in 1..Len(s) :
                   s[i] \notin Whitespace /\ \A j \in 1..(i - 1) : s[j] \in Whitespace,
              Len(s))

\* str.rstrip(): up to the last character that is not whitespace.
RStrip(s) ==
  IF \A i \in 1..Len(s) : s[i] \in Whitespace THEN <<>>
  ELSE SubSeq(s, 1, CHOOSE i \in 1..Len(s) :
                      s[i] \notin Whitespace /\ \A j \in (i + 1)..Len(s) : s[j] \in Whitespace)

\* str.strip()
Strip(s) == RStrip(LStrip(s))

\* str.startswith(p)
StartsWith(s, p) == Len(p) <= Len(s) /\ SubSeq(s, 1, Len(p)) = p

\* The places where sub occurs in s.
Occurrences(s, sub) ==
  {i \in 1..(Len(s) - Len(sub) + 1) : SubSeq(s, i, i + Len(sub) - 1) = sub}

\* `sub in s`
Contains(s, sub) == Occurrences(s, sub) # {}

\* s.find(sub) for a sub that occurs in s, counted from 1.
Find(s, sub) == CHOOSE i \in Occurrences(s, sub) : \A j \in Occurrences(s, sub) : i <= j

\* msg[len(prefix):]
DropPrefix(s, n) == SubSeq(s, n + 1, Len(s))

\* str.split(","): the pieces between commas, empty pieces kept.
RECURSIVE Split(_)
Split(s) ==
  IF ~Contains(s, <<",">>) THEN <<s>>
  ELSE <<SubSeq(s, 1, Find(s, <<",">>) - 1)>>
         \o Split(SubSeq(s, Find(s, <<",">>) + 1, Len(s)))

\* str.replace(a, b) for a non-empty string a: the occurrences of a, left to right.
RECURSIVE ReplaceStr(_, _, _)
ReplaceStr(s, a, b) ==
  IF ~Contains(s, a) THEN s
  ELSE SubSeq(s, 1, Find(s, a) - 1) \o b
         \o ReplaceStr(SubSeq(s, Find(s, a) + Len(a), Len(s)), a, b)

S_id == <<"i","d">>
S_name == <<"n","a","m","e">>
S_cli == <<"c","l","i">>
S_env == <<"e","n","v">>
S_missing == <<"m","i","s","s","i","n","g">>

RECURSIVE Join(_, _)
Join(parts, sep) ==
  IF parts = <<>> THEN <<>>
  ELSE IF Len(parts) = 1 THEN parts[1]
  ELSE parts[1] \o sep \o Join(Tail(parts), sep)

HexDigits == {"0","1","2","3","4","5","6","7","8","9",
              "a","b","c","d","e","f","A","B","C","D","E","F"}

\* The 36 characters of the pattern [0-9a-f]{8}-[0-9a-f]{4}-[0-9a-f]{4}-[0-9a-f]{4}-[0-9a-f]{12}
\* under re.IGNORECASE.
CanonicalUuid(s) ==
  /\ Len(s) = 36
  /\ \A i \in 1..36 : IF i \in {9, 14, 19, 24} THEN s[i] = "-" ELSE s[i] \in HexDigits

\* is_uuid on a str (or None, which is not a str).  re.match with ^...$ : the $
\* matches at the end of the string and also just before a final newline.
is_uuid(value) ==
  /\ value # None
  /\ \/ CanonicalUuid(value)
     \/ /\ Len(value) = 37
        /\ value[37] = "\n"
        /\ CanonicalUuid(SubSeq(value, 1, 36))

\* uuid.UUID(s) for a string is_uuid accepted; str() of the result is the
\* lower-case canonical form.  A string of any other length raises ValueError.
UuidParses(s) == CanonicalUuid(s)
UuidStr(s) == Lower(s)

----------------------------------------------------------------------------
(* Configuration resolution *)

\* os.getenv(name)
getenv(e, name) == e[name]

resolve_config(a, e) ==
  LET id0 == IF Truthy(a.secret_id) THEN a.secret_id
             ELSE IF Truthy(a.secret_name) THEN a.secret_name ELSE None
      ty0 == IF Truthy(a.secret_id) THEN S_id
             ELSE IF Truthy(a.secret_name) THEN S_name ELSE None
      org == Or(a.org_id, getenv(e, "BWS_ORG_ID"))
      \* lines 99-107: one of the two is empty, fill from the environment
      tok1 == IF Truthy(a.access_token) THEN a.access_token
              ELSE getenv(e, "BWS_ACCESS_TOKEN")
      id1 == IF Truthy(id0) THEN id0
             ELSE IF Truthy(getenv(e, "BWS_SECRET_ID")) THEN getenv(e, "BWS_SECRET_ID")
             ELSE IF Truthy(getenv(e, "BWS_SECRET_NAME")) THEN getenv(e, "BWS_SECRET_NAME")
             ELSE id0
      ty1 == IF Truthy(id0) THEN ty0
             ELSE IF Truthy(getenv(e, "BWS_SECRET_ID")) THEN S_id
             ELSE IF Truthy(getenv(e, "BWS_SECRET_NAME")) THEN S_name
             ELSE ty0
      env_token == getenv(e, "BWS_ACCESS_TOKEN")
      env_secret_id == getenv(e, "BWS_SECRET_ID")
      env_secret_name == getenv(e, "BWS_SECRET_NAME")
      env_org_id == getenv(e, "BWS_ORG_ID")
      missing == [access_token |-> None, secret_identifier |-> None, org_id |-> None,
                  identifier_type |-> None, source |-> S_missing]
      fromEnv ==
        IF Truthy(env_token) /\ Truthy(env_secret_id)
        THEN [access_token |-> env_token, secret_identifier |-> env_secret_id,
              org_id |-> env_org_id, identifier_type |-> S_id, source |-> S_env]
        ELSE IF Truthy(env_token) /\ Truthy(env_secret_name)
        THEN [access_token |-> env_token, secret_identifier |-> env_secret_name,
              org_id |-> env_org_id, identifier_type |-> S_name, source |-> S_env]
        ELSE missing
  IN IF a.access_token # None /\ Truthy(id0)
     THEN IF Truthy(a.access_token) /\ Truthy(id0)
          THEN [access_token |-> a.access_token, secret_identifier |-> id0,
                org_id |-> org, identifier_type |-> ty0, source |-> S_cli]
          ELSE IF Truthy(tok1) /\ Truthy(id1)
          THEN [access_token |-> tok1, secret_identifier |-> id1,
                org_id |-> org, identifier_type |-> ty1, source |-> S_cli]
          ELSE fromEnv
     ELSE fromEnv

\* CliOrEnv taking an empty flag for a value.
CliOrEnv_even_empty(cli, e, name) == IF cli # None THEN cli ELSE getenv(e, name)

\* The access-token and organization-id resolution shared by
\* resolve_create_config, resolve_update_config, resolve_delete_config and
\* resolve_list_config.
CliOrEnv(cli, e, name) ==
  IF cli # None
  THEN IF Truthy(cli) THEN cli ELSE getenv(e, name)
  ELSE getenv(e, name)

\* `x if x else None`
OrNone(x) == IF Truthy(x) THEN x ELSE None

resolve_create_config(a, e) ==
  [access_token |-> CliOrEnv(a.access_token, e, "BWS_ACCESS_TOKEN"),
   org_id |-> CliOrEnv(a.org_id, e, "BWS_ORG_ID"),
   key |-> OrNone(a.key),
   value |-> OrNone(a.value),
   note |-> OrNone(a.note),
   project_ids |-> OrNone(a.project_ids),
   source |-> IF Truthy(a.access_token) \/ Truthy(a.org_id) \/ Truthy(a.key)
              THEN S_cli ELSE S_env]

resolve_update_config(a, e) ==
  [access_token |-> CliOrEnv(a.access_token, e, "BWS_ACCESS_TOKEN"),
   org_id |-> CliOrEnv(a.org_id, e, "BWS_ORG_ID"),
   secret_id |-> OrNone(a.secret_id),
   secret_name |-> OrNone(a.secret_name),
   key |-> OrNone(a.key),
   value |-> OrNone(a.value),
   note |-> OrNone(a.note),
   project_ids |-> OrNone(a.project_ids),
   source |-> IF \/ Truthy(a.access_token) \/ Truthy(a.org_id) \/ Truthy(a.secret_id)
                 \/ Truthy(a.secret_name) \/ Truthy(a.key) \/ Truthy(a.value)
                 \/ Truthy(a.note) \/ Truthy(a.project_ids)
              THEN S_cli ELSE S_env]

\* [s.strip() for s in sid.split(",") if s.strip()]
StripPieces(s) ==
  LET pieces == Split(s)
      stripped == [i \in 1..Len(pieces) |-> Strip(pieces[i])]
  IN SelectSeq(stripped, LAMBDA x : x # <<>>)

\* The --secret-id values of delete (action="append"): the list of the values
\* given, empty when the flag is absent; each value is split at commas, the
\* pieces stripped, empty pieces dropped.
RECURSIVE ParseSecretIds(_)
ParseSecretIds(flags) ==
  IF flags = <<>> THEN <<>>
  ELSE StripPieces(Head(flags)) \o ParseSecretIds(Tail(flags))

resolve_delete_config(a, e) ==
  [access_token |-> CliOrEnv(a.access_token, e, "BWS_ACCESS_TOKEN"),
   org_id |-> CliOrEnv(a.org_id, e, "BWS_ORG_ID"),
   secret_ids |-> ParseSecretIds(a.secret_id),
   secret_name |-> OrNone(a.secret_name),
   source |-> IF \/ Truthy(a.access_token) \/ Truthy(a.org_id)
                 \/ a.secret_id # <<>> \/ Truthy(a.secret_name)
              THEN S_cli ELSE S_env]

resolve_list_config(a, e) ==
  [access_token |-> CliOrEnv(a.access_token, e, "BWS_ACCESS_TOKEN"),
   org_id |-> CliOrEnv(a.org_id, e, "BWS_ORG_ID"),
   project_id |-> a.project_id,
   key_pattern |-> a.key_pattern,
   source |-> IF \/ Truthy(a.access_token) \/ Truthy(a.org_id)
                 \/ Truthy(a.project_id) \/ Truthy(a.key_pattern)
              THEN S_cli ELSE S_env]

----------------------------------------------------------------------------
(* The error taxonomy: the category tags, as the handlers test them with    *)
(* str.startswith, and the messages the code raises.                        *)

T_AUTH_ERROR == <<"A","U","T","H","_","E","R","R","O","R",":">>
T_NOT_FOUND == <<"N","O","T","_","F","O","U","N","D",":">>
T_NOT_FOUND_OR_ERROR == <<"N","O","T","_","F","O","U","N","D","_","O","R","_","E","R","R","O","R",":">>
T_ORG_ID_REQUIRED == <<"O","R","G","_","I","D","_","R","E","Q","U","I","R","E","D",":">>
T_INVALID_ID == <<"I","N","V","A","L","I","D","_","I","D",":">>
T_LIST_ERROR == <<"L","I","S","T","_","E","R","R","O","R",":">>
T_MULTIPLE_SECRETS == <<"M","U","L","T","I","P","L","E","_","S","E","C","R","E","T","S",":">>
T_MULTIPLE_SECRETS_DELETE == <<"M","U","L","T","I","P","L","E","_","S","E","C","R","E","T","S","_","D","E","L","E","T","E",":">>
T_MULTIPLE_SECRETS_UPDATE == <<"M","U","L","T","I","P","L","E","_","S","E","C","R","E","T","S","_","U","P","D","A","T","E",":">>
T_DUPLICATE_SECRET == <<"D","U","P","L","I","C","A","T","E","_","S","E","C","R","E","T",":">>
T_SDK_ERROR == <<"S","D","K","_","E","R","R","O","R",":">>
T_PROJECT_ID_REQUIRED == <<"P","R","O","J","E","C","T","_","I","D","_","R","E","Q","U","I","R","E","D",":">>
T_VALUE_REQUIRED == <<"V","A","L","U","E","_","R","E","Q","U","I","R","E","D",":">>

S_404 == <<"4","0","4">>
S_not_found == <<"n","o","t"," ","f","o","u","n","d">>
S_Resource_not_found == <<"R","e","s","o","u","r","c","e"," ","n","o","t"," ","f","o","u","n","d">>
S_None == <<"N","o","n","e">>
S_unknown == <<"u","n","k","n","o","w","n">>
S_y == <<"y">>
S_yes == <<"y","e","s">>

\* The test the code applies to an SDK error message or an exception text:
\* "404" in msg or "not found" in msg.lower() or "Resource not found" in msg
LooksNotFound(msg) ==
  \/ Contains(msg, S_404)
  \/ Contains(Lower(msg), S_not_found)
  \/ Contains(msg, S_Resource_not_found)

\* An exception: its class and str(exc).
RuntimeError(msg) == [cls |-> "RuntimeError", msg |-> msg]
Exception(msg) == [cls |-> "Exception", msg |-> msg]
NoExc == [cls |-> "none", msg |-> <<>>]

\* str(x) in an f-string: None prints as "None".
Str(x) == IF x = None THEN S_None ELSE x

\* f"TAG: {detail}"
Tagged(tag, detail) == tag \o <<" ">> \o Str(detail)

\* The except clauses of handle_get.
handle_get_except(exc) ==
  IF exc.cls = "RuntimeError"
  THEN IF StartsWith(exc.msg, T_AUTH_ERROR) THEN 3
       ELSE IF StartsWith(exc.msg, T_NOT_FOUND_OR_ERROR) \/ StartsWith(exc.msg, T_NOT_FOUND) THEN 4
       ELSE IF StartsWith(exc.msg, T_ORG_ID_REQUIRED) THEN 2
       ELSE IF StartsWith(exc.msg, T_INVALID_ID) THEN 2
       ELSE IF StartsWith(exc.msg, T_LIST_ERROR) THEN 5
       ELSE IF StartsWith(exc.msg, T_MULTIPLE_SECRETS) THEN 2
       ELSE IF StartsWith(exc.msg, T_SDK_ERROR) THEN 5
       ELSE 5
  ELSE 5

\* The except clauses that close handle_create.
handle_create_except(exc) ==
  IF exc.cls = "RuntimeError"
  THEN IF StartsWith(exc.msg, T_AUTH_ERROR) THEN 3
       ELSE IF StartsWith(exc.msg, T_PROJECT_ID_REQUIRED) THEN 2
       ELSE IF StartsWith(exc.msg, T_DUPLICATE_SECRET) THEN 2
       ELSE IF StartsWith(exc.msg, T_LIST_ERROR) THEN 5
       ELSE IF StartsWith(exc.msg, T_INVALID_ID) THEN 2
       ELSE IF StartsWith(exc.msg, T_NOT_FOUND) THEN 4
       ELSE IF StartsWith(exc.msg, T_SDK_ERROR) THEN 5
       ELSE 5
  ELSE IF LooksNotFound(exc.msg) THEN 4 ELSE 5

\* The except clauses that close handle_update.
handle_update_except(exc) ==
  IF exc.cls = "RuntimeError"
  THEN IF StartsWith(exc.msg, T_AUTH_ERROR) THEN 3
       ELSE IF StartsWith(exc.msg, T_ORG_ID_REQUIRED) THEN 2
       ELSE IF StartsWith(exc.msg, T_INVALID_ID) THEN 2
       ELSE IF StartsWith(exc.msg, T_NOT_FOUND) THEN 4
       ELSE IF StartsWith(exc.msg, T_LIST_ERROR) THEN 5
       ELSE IF \/ StartsWith(exc.msg, T_MULTIPLE_SECRETS)
               \/ StartsWith(exc.msg, T_MULTIPLE_SECRETS_UPDATE) THEN 2
       ELSE IF StartsWith(exc.msg, T_SDK_ERROR) THEN 5
       ELSE 5
  ELSE IF LooksNotFound(exc.msg) THEN 4 ELSE 5

\* The except clauses that close handle_delete.
handle_delete_except(exc) ==
  IF exc.cls = "RuntimeError"
  THEN IF StartsWith(exc.msg, T_AUTH_ERROR) THEN 3
       ELSE IF StartsWith(exc.msg, T_ORG_ID_REQUIRED) THEN 2
       ELSE IF StartsWith(exc.msg, T_INVALID_ID) THEN 2
       ELSE IF StartsWith(exc.msg, T_NOT_FOUND) THEN 4
       ELSE IF StartsWith(exc.msg, T_LIST_ERROR) THEN 5
       ELSE IF \/ StartsWith(exc.msg, T_MULTIPLE_SECRETS)
               \/ StartsWith(exc.msg, T_MULTIPLE_SECRETS_DELETE) THEN 2
       ELSE IF StartsWith(exc.msg, T_SDK_ERROR) THEN 5
       ELSE 5
  ELSE IF LooksNotFound(exc.msg) THEN 4 ELSE 5

\* The except clauses of handle_list without the test for INVALID_ID.
handle_list_except_no_invalid_id(exc) ==
  IF exc.cls = "RuntimeError"
  THEN IF StartsWith(exc.msg, T_AUTH_ERROR) THEN 3
       ELSE IF StartsWith(exc.msg, T_LIST_ERROR) THEN 5
       ELSE IF StartsWith(exc.msg, T_SDK_ERROR) THEN 5
       ELSE 5
  ELSE 5

\* The except clauses of handle_list.
handle_list_except(exc) ==
  IF exc.cls = "RuntimeError"
  THEN IF StartsWith(exc.msg, T_AUTH_ERROR) THEN 3
       ELSE IF StartsWith(exc.msg, T_LIST_ERROR) THEN 5
       ELSE IF StartsWith(exc.msg, T_INVALID_ID) THEN 2
       ELSE IF StartsWith(exc.msg, T_SDK_ERROR) THEN 5
       ELSE 5
  ELSE 5

Handlers == {"get", "create", "update", "delete", "list"}

\* The exit code handler h returns for an exception that reaches its except clauses.
HandlerExcept(h, exc) ==
  CASE h = "get" -> handle_get_except(exc)
    [] h = "create" -> handle_create_except(exc)
    [] h = "update" -> handle_update_except(exc)
    [] h = "delete" -> handle_delete_except(exc)
    [] h = "list" -> handle_list_except(exc)

----------------------------------------------------------------------------
(* Calls into the SDK and the terminal.                                     *)
(*                                                                          *)
(* A handler is evaluated against rs, the responses received so far.  Its   *)
(* k-th call takes the k-th response; a call beyond the responses received  *)
(* leaves the handler waiting on that call.  Every function below returns   *)
(* one of: Ok (a value), Raise (an exception propagating), Wait (blocked on *)
(* a call), Return (the handler's return statement); tr is the sequence of  *)
(* calls that have returned so far.                                         *)

NoCall == [op |-> "none", arg |-> None]

Ok(tr, v) == [k |-> "ok", tr |-> tr, v |-> v]
Raise(tr, exc) == [k |-> "exc", tr |-> tr, exc |-> exc]
Wait(tr, op, arg) == [k |-> "wait", tr |-> tr, call |-> [op |-> op, arg |-> arg]]
Return(tr, code, out, exc) ==
  [k |-> "ret", tr |-> tr, code |-> code, out |-> out, exc |-> exc]

\* Statement sequencing: m, then K on its result, unless m raised, blocked
\* or returned.
Bind(m, K(_)) == IF m.k = "ok" THEN K(m) ELSE m

\* try: m / except: K sees the value or the exception, unless m blocked.
Try(m, K(_)) == IF m.k \in {"ok", "exc"} THEN K(m) ELSE m

\* A response.  kind: "ok" (success with data), "nodata" (success, data None),
\* "fail" (success False, error_message msg), "raise" (the call raises
\* Exception(msg)); for the terminal: "tty"/"notty" (isatty), "line" (input()
\* or read() returned data), "eof", "interrupt".
Resp(kind, msg, data) == [kind |-> kind, msg |-> msg, data |-> data]

\* getattr(response, "success", False)
Success(r) == r.kind \in {"ok", "nodata"}
\* getattr(response, "success", False) and getattr(response, "data", None)
HasData(r) == r.kind = "ok"

\* The outcome of a call whose response r has arrived.
Returned(tr, r) ==
  IF r.kind = "raise" THEN Raise(tr, Exception(r.msg))
  ELSE IF r.kind = "eof" THEN Raise(tr, [cls |-> "EOFError", msg |-> <<>>])
  ELSE IF r.kind = "interrupt" THEN Raise(tr, [cls |-> "KeyboardInterrupt", msg |-> <<>>])
  ELSE Ok(tr, r)

Call(rs, tr, op, arg) ==
  IF Len(tr) < Len(rs)
  THEN Returned(Append(tr, [op |-> op, arg |-> arg, r |-> rs[Len(tr) + 1]]),
                rs[Len(tr) + 1])
  ELSE Wait(tr, op, arg)

\* A login whose response is not examined.
login_access_token_unchecked(rs, tr, access_token) ==
  Bind(Call(rs, tr, "login", access_token), LAMBDA c : Ok(c.tr, TRUE))

\* client = BitwardenClient(); client.auth().login_access_token(access_token);
\* a response without success raises AUTH_ERROR.
login_access_token(rs, tr, access_token) ==
  Bind(Call(rs, tr, "login", access_token), LAMBDA c :
    IF ~Success(c.v) THEN Raise(c.tr, RuntimeError(Tagged(T_AUTH_ERROR, c.v.msg)))
    ELSE Ok(c.tr, TRUE))

Digits == <<"0","1","2","3","4","5","6","7","8","9">>

\* str(n) for a natural number n
RECURSIVE IntStr(_)
IntStr(n) ==
  IF n < 10 THEN <<Digits[n + 1]>> ELSE IntStr(n \div 10) \o <<Digits[(n % 10) + 1]>>

Ids(secrets) == [i \in 1..Len(secrets) |-> secrets[i].id]

\* MatchingIds comparing keys without regard to case.
MatchingIds_any_case(secrets, secret_name) ==
  Ids(SelectSeq(secrets, LAMBDA s : Lower(s.key) = Lower(secret_name) /\ Truthy(s.id)))

\* MatchingIds keeping the first match only.
MatchingIds_first(secrets, secret_name) ==
  IF SelectSeq(secrets, LAMBDA s : s.key = secret_name /\ Truthy(s.id)) = <<>> THEN <<>>
  ELSE <<Head(SelectSeq(secrets, LAMBDA s : s.key = secret_name /\ Truthy(s.id))).id>>

\* The ids of the listed secrets whose key equals secret_name and that have an id.
MatchingIds(secrets, secret_name) ==
  Ids(SelectSeq(secrets, LAMBDA s : s.key = secret_name /\ Truthy(s.id)))

SecretDetail(secret_id, project_str) ==
  <<" "," ","-"," ","S","e","c","r","e","t"," ","I","D",":"," ">> \o secret_id \o <<","," ","P","r","o","j","e","c","t"," ","I","D",":"," ">> \o project_str

\* The loop of find_secret_by_name that fetches each candidate for the message.
RECURSIVE SecretDetails(_, _, _, _)
SecretDetails(rs, tr, ids, details) ==
  IF ids = <<>> THEN Ok(tr, details)
  ELSE Try(Call(rs, tr, "get", Head(ids)), LAMBDA c :
         SecretDetails(rs, c.tr, Tail(ids),
           IF c.k = "exc" THEN Append(details, SecretDetail(Head(ids), S_unknown))
           ELSE IF HasData(c.v)
           THEN Append(details, SecretDetail(Head(ids),
                  IF Truthy(c.v.data.project_id) THEN c.v.data.project_id ELSE S_unknown))
           ELSE details))

MultipleSecretsMessage(n, secret_name, details) ==
  <<"M","U","L","T","I","P","L","E","_","S","E","C","R","E","T","S",":"," ","F","o","u","n","d"," ">> \o IntStr(n) \o <<" ","s","e","c","r","e","t","s"," ","w","i","t","h"," ","n","a","m","e","/","k","e","y"," ","'">> \o secret_name
    \o <<"'",":","\\","n">> \o Join(details, <<"\n">>)
    \o <<"\\","n","\\","n","T","o"," ","d","i","s","a","m","b","i","g","u","a","t","e",","," ","u","s","e"," ","-","-","s","e","c","r","e","t","-","i","d"," ","<","u","u","i","d",">"," ","w","i","t","h"," ","o","n","e"," ","o","f"," ","t","h","e"," ","s","e","c","r","e","t"," ","I","D","s"," ","a","b","o","v","e",".">>

find_secret_by_name(rs, tr, secret_name, org_id) ==
  IF ~Truthy(org_id)
  THEN Raise(tr, RuntimeError(<<"O","R","G","_","I","D","_","R","E","Q","U","I","R","E","D",":"," ","O","r","g","a","n","i","z","a","t","i","o","n"," ","I","D"," ","i","s"," ","r","e","q","u","i","r","e","d"," ","w","h","e","n"," ","s","e","a","r","c","h","i","n","g"," ","b","y"," ","n","a","m","e">>))
  ELSE Bind(Call(rs, tr, "list", org_id), LAMBDA c :
    IF ~Success(c.v) THEN Raise(c.tr, RuntimeError(Tagged(T_LIST_ERROR, c.v.msg)))
    ELSE IF ~HasData(c.v)
    THEN Raise(c.tr, RuntimeError(<<"L","I","S","T","_","E","R","R","O","R",":"," ","N","o"," ","d","a","t","a"," ","r","e","t","u","r","n","e","d"," ","f","r","o","m"," ","s","e","c","r","e","t","s"," ","l","i","s","t">>))
    ELSE IF MatchingIds(c.v.data, secret_name) = <<>>
    THEN Raise(c.tr, RuntimeError(
           <<"N","O","T","_","F","O","U","N","D",":"," ","S","e","c","r","e","t"," ","w","i","t","h"," ","n","a","m","e","/","k","e","y"," ","'">> \o secret_name \o <<"'"," ","n","o","t"," ","f","o","u","n","d">>))
    ELSE IF Len(MatchingIds(c.v.data, secret_name)) = 1
    THEN Ok(c.tr, MatchingIds(c.v.data, secret_name)[1])
    ELSE Bind(SecretDetails(rs, c.tr, MatchingIds(c.v.data, secret_name), <<>>), LAMBDA d :
           Raise(d.tr, RuntimeError(MultipleSecretsMessage(
             Len(MatchingIds(c.v.data, secret_name)), secret_name, d.v)))))

get_secret_value(rs, tr, access_token, secret_identifier, identifier_type, org_id) ==
  Bind(login_access_token(rs, tr, access_token), LAMBDA login :
  Bind(IF identifier_type = S_name
       THEN IF ~Truthy(org_id)
            THEN Raise(login.tr, RuntimeError(
                   <<"O","R","G","_","I","D","_","R","E","Q","U","I","R","E","D",":"," ","O","r","g","a","n","i","z","a","t","i","o","n"," ","I","D"," ","i","s"," ","r","e","q","u","i","r","e","d"," ","w","h","e","n"," ","u","s","i","n","g"," ","s","e","c","r","e","t"," ","n","a","m","e"," ","(","p","r","o","v","i","d","e"," ","v","i","a"," ","-","-","o","r","g","-","i","d"," ","o","r"," ","B","W","S","_","O","R","G","_","I","D"," ","e","n","v","i","r","o","n","m","e","n","t"," ","v","a","r","i","a","b","l","e",")">>))
            ELSE find_secret_by_name(rs, login.tr, secret_identifier, org_id)
       ELSE IF identifier_type = S_id /\ ~is_uuid(secret_identifier)
       THEN Raise(login.tr, RuntimeError(
              <<"I","N","V","A","L","I","D","_","I","D",":"," ","S","e","c","r","e","t"," ","I","D"," ","m","u","s","t"," ","b","e"," ","a"," ","v","a","l","i","d"," ","U","U","I","D"," ","f","o","r","m","a","t","."," ","G","o","t",":"," ","'">> \o secret_identifier
                \o <<"'","."," ","U","s","e"," ","-","-","s","e","c","r","e","t","-","n","a","m","e"," ","f","o","r"," ","n","a","m","e","-","b","a","s","e","d"," ","l","o","o","k","u","p",".">>))
       ELSE Ok(login.tr, secret_identifier), LAMBDA secret_id :
  Bind(Call(rs, secret_id.tr, "get", secret_id.v), LAMBDA c :
    IF HasData(c.v)
    THEN IF c.v.data.value = None
         THEN Raise(c.tr, RuntimeError(<<"S","D","K","_","E","R","R","O","R",":"," ","S","e","c","r","e","t"," ","r","e","t","u","r","n","e","d"," ","b","u","t"," ","v","a","l","u","e"," ","i","s"," ","e","m","p","t","y","/","n","u","l","l">>))
         ELSE Ok(c.tr, c.v.data.value)
    ELSE Raise(c.tr, RuntimeError(Tagged(T_NOT_FOUND_OR_ERROR, c.v.msg))))))

\* value.replace(...).replace(...) as the f-strings of handle_get and
\* handle_update write it: two backslashes become four, then a double quote
\* becomes two backslashes and a double quote.
EscapeValue(value) ==
  ReplaceStr(ReplaceStr(value, <<"\\", "\\">>, <<"\\", "\\", "\\", "\\">>),
             <<"\"">>, <<"\\", "\\", "\"">>)

\* The --json line of handle_get.
get_json(c, value) ==
  <<"{","\"","s","e","c","r","e","t","_">> \o c.identifier_type \o <<"\"",":","\"">> \o c.secret_identifier \o <<"\"",",">>
    \o <<"\"","s","o","u","r","c","e","\"",":","\"">> \o c.source \o <<"\"">>
    \o (IF Truthy(c.org_id) THEN <<",","\"","o","r","g","_","i","d","\"",":","\"">> \o c.org_id \o <<"\"">> ELSE <<>>)
    \o <<",","\"","v","a","l","u","e","\"",":","\"">>
    \o EscapeValue(value)
    \o <<"\"","}">>

\* The body of handle_get once the configuration c is resolved.
handle_get_run(a, c, rs) ==
  IF ~Truthy(c.access_token) \/ ~Truthy(c.secret_identifier)
  THEN Return(<<>>, 2, <<>>, NoExc)
  ELSE Try(get_secret_value(rs, <<>>, c.access_token, c.secret_identifier,
                            c.identifier_type, c.org_id), LAMBDA v :
         IF v.k = "exc" THEN Return(v.tr, handle_get_except(v.exc), <<>>, v.exc)
         ELSE Return(v.tr, 0, <<IF a.json THEN get_json(c, v.v) ELSE v.v>>, NoExc))

\* handle_get without its test for --secret-id given together with --secret-name.
handle_get_either(a, e, rs) == handle_get_run(a, resolve_config(a, e), rs)

handle_get(a, e, rs) ==
  IF Truthy(a.secret_id) /\ Truthy(a.secret_name)
  THEN Return(<<>>, 2, <<>>, NoExc)
  ELSE handle_get_run(a, resolve_config(a, e), rs)

----------------------------------------------------------------------------
(* The values the runs are drawn from *)

\* A canonical UUID made of one hexadecimal digit.
Uuid(c) == Rep(8, c) \o <<"-">> \o Rep(4, c) \o <<"-">> \o Rep(4, c) \o <<"-">>
             \o Rep(4, c) \o <<"-">> \o Rep(12, c)

U1 == Uuid("1")
U2 == Uuid("2")
U3 == Uuid("3")
NewId == Uuid("9")
P1 == Uuid("a")
P1_upper == Uuid("A")
P2 == Uuid("b")
O1 == Uuid("c")
NotAUuid == <<"n","o","t","-","a","-","u","u","i","d">>
K_db == <<"d","b">>
K_DB == <<"D","B">>
TokCli == <<"t","c">>
TokEnv == <<"t","e">>

Secret(id, key, value, note, project_id) ==
  [id |-> id, key |-> key, value |-> value, note |-> note,
   project_id |-> project_id, organization_id |-> O1]

\* The secrets a backend may hold, in the order it lists them: two with the
\* key "db" (one of them detached from its project), one whose key differs
\* from "db" in letter case only, and one the listing reports without an id.
Catalog ==
  << Secret(U1, K_db, <<"p", "\"", "q">>, <<"n","1">>, P1),
     Secret(U2, K_db, <<"x", "\\", "y">>, None, None),
     Secret(U3, K_DB, <<"v","3">>, <<"n", "\"", "3">>, P1),
     Secret(None, K_db, <<"v","4">>, None, P2) >>

\* The largest number of secrets the backend holds at the start of a run.
MaxSecrets == 3

\* The backend at the start of a run: at most MaxSecrets secrets of the catalog.
Stores ==
  { SelectSeq(Catalog, LAMBDA s : \E i \in held : Catalog[i] = s) :
      held \in {h \in SUBSET (1..Len(Catalog)) : Cardinality(h) <= MaxSecrets} }

NoEnv == [BWS_ACCESS_TOKEN |-> None, BWS_SECRET_ID |-> None,
          BWS_SECRET_NAME |-> None, BWS_ORG_ID |-> None]

\* The environments of the runs: empty, or a token with an organization and,
\* for get, one of the two identifier variables.
EnvTokenOrg == [NoEnv EXCEPT !.BWS_ACCESS_TOKEN = TokEnv, !.BWS_ORG_ID = O1]

RunEnvs(c) ==
  IF c = "get"
  THEN {NoEnv, [EnvTokenOrg EXCEPT !.BWS_SECRET_ID = U2],
        [EnvTokenOrg EXCEPT !.BWS_SECRET_NAME = K_DB]}
  ELSE {NoEnv, EnvTokenOrg}

\* argparse's Namespace with every flag absent.
NoArgs ==
  [secret_id |-> None, secret_name |-> None, access_token |-> None, org_id |-> None,
   key |-> None, value |-> None, note |-> None, project_ids |-> None,
   project_id |-> None, key_pattern |-> None,
   json |-> FALSE, force |-> FALSE, allow_duplicate |-> FALSE, debug |-> FALSE]

GetArgs ==
  { [NoArgs EXCEPT !.secret_id = i, !.secret_name = n, !.access_token = t,
                   !.org_id = o, !.json = j] :
      i \in {None, U1, NotAUuid}, n \in {None, K_db}, t \in {None, TokCli},
      o \in {None, O1}, j \in BOOLEAN }

K_new == <<"a","p","i">>
V_new == <<"s","3">>
N_new == <<"a", "\"", "b">>

\* A --project-ids value with no piece in it.
Blank == <<" ",","," ">>

CreateArgs ==
  { [NoArgs EXCEPT !.key = K_db, !.value = v, !.note = n, !.project_ids = p,
                   !.access_token = t, !.org_id = o, !.allow_duplicate = d, !.json = j] :
      v \in {None, <<>>, V_new}, n \in {None, N_new},
      p \in {None, <<>>, Blank, P1_upper, P2 \o <<","," ">> \o P1, NotAUuid},
      t \in {None, TokCli}, o \in {None}, d \in BOOLEAN, j \in BOOLEAN }

\* The fields an update supplies: none, one of them, or all three.
UpdateFields ==
  { <<None, None, None>>, <<K_new, <<>>, <<>>>>, <<None, V_new, None>>,
    <<None, None, N_new>>, <<K_new, V_new, N_new>> }

UpdateArgs ==
  { [NoArgs EXCEPT !.secret_id = i, !.secret_name = n, !.access_token = t, !.org_id = o,
                   !.key = f[1], !.value = f[2], !.note = f[3], !.project_ids = p,
                   !.force = c, !.json = j] :
      i \in {None, U1, U2}, n \in {None, K_db}, t \in {None, TokCli}, o \in {None},
      f \in UpdateFields, p \in {None, Blank, P2}, c \in BOOLEAN, j \in BOOLEAN }

\* --secret-id of delete is repeatable: the list of the values given, empty
\* when the flag is absent.
DeleteArgs ==
  { [NoArgs EXCEPT !.secret_id = i, !.secret_name = n, !.access_token = t, !.org_id = o,
                   !.force = c, !.json = j] :
      i \in {<<>>, <<U1>>, <<U2 \o <<","," ">> \o U1, U2>>, <<NotAUuid>>},
      n \in {None, K_db, K_DB}, t \in {None, TokCli}, o \in {None},
      c \in BOOLEAN, j \in BOOLEAN }

ListArgs ==
  { [NoArgs EXCEPT !.access_token = t, !.org_id = o, !.project_id = p,
                   !.key_pattern = k, !.json = j] :
      t \in {None, TokCli}, o \in {None, O1}, p \in {None, P1, P1_upper},
      k \in {None, <<"d">>}, j \in BOOLEAN }

----------------------------------------------------------------------------
(* What a call may return *)

S_boom == <<"b","o","o","m">>
S_HTTP_404 == <<"H","T","T","P"," ","4","0","4">>
S_Not_Found == <<"N","o","t"," ","F","o","u","n","d">>

\* A successful response has no error_message.  A login answers, fails, or
\* raises; the text of the exception may read like a missing resource.
LoginOutcomes ==
  {Resp("ok", None, None), Resp("fail", S_boom, None),
   Resp("raise", S_boom, None), Resp("raise", S_HTTP_404, None)}

\* What a read may do besides answering with data.
ReadFailures ==
  {Resp("nodata", None, None), Resp("fail", S_boom, None), Resp("raise", S_boom, None)}

\* secrets().list reports each secret's id and key, not its project.
Listing(st) == [i \in 1..Len(st) |-> [id |-> st[i].id, key |-> st[i].key]]

ListOutcomes(st) == {Resp("ok", None, Listing(st))} \cup ReadFailures

\* secrets().get(id): the stored secret with that id, or a failure.
GetOutcomes(st, id) ==
  {Resp("ok", None, st[i]) : i \in {j \in 1..Len(st) : st[j].id = id}} \cup ReadFailures

\* What a write may do besides succeeding: an unsuccessful response, whose
\* error_message may read like a missing resource, or an exception.
WriteFailures ==
  {Resp("fail", S_boom, None), Resp("fail", S_Not_Found, None), Resp("raise", S_boom, None)}

\* secrets().create(...): the secret the backend stores under a new id.
Created(arg) ==
  [id |-> NewId, key |-> arg.key, value |-> arg.value, note |-> arg.note,
   project_id |-> arg.project_ids[1], organization_id |-> arg.organization_id]

\* A write answers with the secret written, with that secret but no id, with
\* no data at all, with a failure, or raises.
WriteOutcomes(secret) ==
  {Resp("ok", None, secret), Resp("ok", None, [secret EXCEPT !.id = None]),
   Resp("nodata", None, None)} \cup WriteFailures

CreateOutcomes(arg) == WriteOutcomes(Created(arg))

\* secrets().update(...): the stored secret with the fields of the call.
Updated(secret, arg) ==
  [secret EXCEPT !.key = arg.key, !.value = arg.value, !.note = arg.note,
                 !.project_id = arg.project_ids[1]]

UpdateOutcomes(st, arg) ==
  IF \E i \in 1..Len(st) : st[i].id = arg.id
  THEN WriteOutcomes(Updated(st[CHOOSE i \in 1..Len(st) : st[i].id = arg.id], arg))
  ELSE WriteFailures

DeleteOutcomes == {Resp("ok", None, None)} \cup WriteFailures

\* The backend after a call that succeeded.
AfterCreate(st, arg) == Append(st, Created(arg))
AfterUpdate(st, arg) ==
  [i \in 1..Len(st) |-> IF st[i].id = arg.id THEN Updated(st[i], arg) ELSE st[i]]
AfterDelete(st, ids) ==
  SelectSeq(st, LAMBDA s : \A i \in 1..Len(ids) : ids[i] # s.id)

\* sys.stdin.isatty()
IsattyOutcomes == {Resp("tty", None, None), Resp("notty", None, None)}

\* input(): a line typed at the terminal, end of file, or Ctrl-C.
InputOutcomes ==
  {Resp("line", None, s) : s \in {<<"y">>, <<" ","Y","e","s"," ">>, <<"n">>, <<>>}}
    \cup {Resp("eof", None, None), Resp("interrupt", None, None)}

\* sys.stdin.read(): the piped content.
ReadOutcomes == {Resp("line", None, s) : s \in {<<" ", "s", "4", "\n">>, <<" ", "\n">>}}

----------------------------------------------------------------------------
(* create *)

\* read_value_from_stdin returning the text as read, without .strip().
read_value_from_stdin_unstripped(rs, tr) ==
  Bind(Call(rs, tr, "isatty", None), LAMBDA t :
    IF t.v.kind = "tty"
    THEN Raise(t.tr, RuntimeError(<<"V","A","L","U","E","_","R","E","Q","U","I","R","E","D",":"," ","S","e","c","r","e","t"," ","v","a","l","u","e"," ","i","s"," ","r","e","q","u","i","r","e","d","."," ","P","r","o","v","i","d","e"," ","v","i","a"," ","-","-","v","a","l","u","e"," ","o","r"," ","p","i","p","e"," ","t","o"," ","s","t","d","i","n",".">>))
    ELSE Bind(Call(rs, t.tr, "read", None), LAMBDA r :
      IF Strip(r.v.data) = <<>>
      THEN Raise(r.tr, RuntimeError(<<"V","A","L","U","E","_","R","E","Q","U","I","R","E","D",":"," ","S","e","c","r","e","t"," ","v","a","l","u","e"," ","i","s"," ","r","e","q","u","i","r","e","d","."," ","P","r","o","v","i","d","e"," ","v","i","a"," ","-","-","v","a","l","u","e"," ","o","r"," ","p","i","p","e"," ","t","o"," ","s","t","d","i","n",".">>))
      ELSE Ok(r.tr, r.v.data)))

\* sys.stdin.isatty(), then sys.stdin.read().strip()
read_value_from_stdin(rs, tr) ==
  Bind(Call(rs, tr, "isatty", None), LAMBDA t :
    IF t.v.kind = "tty"
    THEN Raise(t.tr, RuntimeError(<<"V","A","L","U","E","_","R","E","Q","U","I","R","E","D",":"," ","S","e","c","r","e","t"," ","v","a","l","u","e"," ","i","s"," ","r","e","q","u","i","r","e","d","."," ","P","r","o","v","i","d","e"," ","v","i","a"," ","-","-","v","a","l","u","e"," ","o","r"," ","p","i","p","e"," ","t","o"," ","s","t","d","i","n",".">>))
    ELSE Bind(Call(rs, t.tr, "read", None), LAMBDA r :
      IF Strip(r.v.data) = <<>>
      THEN Raise(r.tr, RuntimeError(<<"V","A","L","U","E","_","R","E","Q","U","I","R","E","D",":"," ","S","e","c","r","e","t"," ","v","a","l","u","e"," ","i","s"," ","r","e","q","u","i","r","e","d","."," ","P","r","o","v","i","d","e"," ","v","i","a"," ","-","-","v","a","l","u","e"," ","o","r"," ","p","i","p","e"," ","t","o"," ","s","t","d","i","n",".">>))
      ELSE Ok(r.tr, Strip(r.v.data))))

\* The first --project-ids piece that is_uuid or uuid.UUID rejects, or None.
BadProjectId(pids) ==
  IF \E i \in 1..Len(pids) : ~(is_uuid(pids[i]) /\ UuidParses(pids[i]))
  THEN pids[CHOOSE i \in 1..Len(pids) :
              /\ ~(is_uuid(pids[i]) /\ UuidParses(pids[i]))
              /\ \A j \in 1..(i - 1) : is_uuid(pids[j]) /\ UuidParses(pids[j])]
  ELSE None

\* [uuid.UUID(pid) for pid in project_id_list], each written as str() prints it.
ProjectUuids(pids) == [i \in 1..Len(pids) |-> UuidStr(pids[i])]

InvalidProjectId(pid) ==
  RuntimeError(<<"I","N","V","A","L","I","D","_","I","D",":"," ","P","r","o","j","e","c","t"," ","I","D"," ","m","u","s","t"," ","b","e"," ","a"," ","v","a","l","i","d"," ","U","U","I","D"," ","f","o","r","m","a","t","."," ","G","o","t",":"," ","'">> \o pid \o <<"'",".">>)

InvalidOrgId(organization_id) ==
  RuntimeError(<<"I","N","V","A","L","I","D","_","I","D",":"," ","O","r","g","a","n","i","z","a","t","i","o","n"," ","I","D"," ","m","u","s","t"," ","b","e"," ","a"," ","v","a","l","i","d"," ","U","U","I","D"," ","f","o","r","m","a","t","."," ","G","o","t",":"," ","'">>
                 \o organization_id \o <<"'",".">>)

\* The loop of check_duplicate_secret over the secrets with the key: the first
\* one whose lookup succeeds and reports a project among project_ids.
RECURSIVE DuplicateAmong(_, _, _, _)
DuplicateAmong(rs, tr, ids, project_ids) ==
  IF ids = <<>> THEN Ok(tr, None)
  ELSE Try(Call(rs, tr, "get", Head(ids)), LAMBDA g :
         IF /\ g.k = "ok"
            /\ HasData(g.v)
            /\ g.v.data.project_id # None
            /\ \E i \in 1..Len(project_ids) : project_ids[i] = g.v.data.project_id
         THEN Ok(g.tr, Head(ids))
         ELSE DuplicateAmong(rs, g.tr, Tail(ids), project_ids))

check_duplicate_secret(rs, tr, secret_key, org_id, project_ids) ==
  Bind(Call(rs, tr, "list", org_id), LAMBDA c :
    IF ~Success(c.v) THEN Raise(c.tr, RuntimeError(Tagged(T_LIST_ERROR, c.v.msg)))
    ELSE IF ~HasData(c.v)
    THEN Raise(c.tr, RuntimeError(<<"L","I","S","T","_","E","R","R","O","R",":"," ","N","o"," ","d","a","t","a"," ","r","e","t","u","r","n","e","d"," ","f","r","o","m"," ","s","e","c","r","e","t","s"," ","l","i","s","t">>))
    ELSE DuplicateAmong(rs, c.tr, MatchingIds(c.v.data, secret_key), project_ids))

\* `"404" in msg` when msg is None
NoneNotIterable == [cls |-> "TypeError", msg |-> <<"a","r","g","u","m","e","n","t"," ","o","f"," ","t","y","p","e"," ","'","N","o","n","e","T","y","p","e","'"," ","i","s"," ","n","o","t"," ","i","t","e","r","a","b","l","e">>]

\* The end of create_secret, update_secret and delete_secret on a response
\* that is not a success with data: NOT_FOUND or SDK_ERROR by the message.
FailedWrite(c, advice) ==
  IF c.v.msg = None THEN Raise(c.tr, NoneNotIterable)
  ELSE IF LooksNotFound(c.v.msg)
  THEN Raise(c.tr, RuntimeError(T_NOT_FOUND \o <<" ">> \o c.v.msg \o advice))
  ELSE Raise(c.tr, RuntimeError(Tagged(T_SDK_ERROR, c.v.msg)))

\* create_secret from the duplicate check on; pids is project_id_list.
create_secret_checked(rs, tr, organization_id, key, value, note, pids, allow_duplicate) ==
  Bind(IF allow_duplicate THEN Ok(tr, None)
       ELSE check_duplicate_secret(rs, tr, key, organization_id, ProjectUuids(pids)),
       LAMBDA existing_secret_id :
    IF Truthy(existing_secret_id.v)
    THEN Raise(existing_secret_id.tr, RuntimeError(
           <<"D","U","P","L","I","C","A","T","E","_","S","E","C","R","E","T",":"," ","A"," ","s","e","c","r","e","t"," ","w","i","t","h"," ","k","e","y"," ","'">> \o key
             \o <<"'"," ","a","l","r","e","a","d","y"," ","e","x","i","s","t","s"," ","i","n"," ","o","n","e"," ","o","r"," ","m","o","r","e"," ","o","f"," ","t","h","e"," ","s","p","e","c","i","f","i","e","d"," ","p","r","o","j","e","c","t","s"," ","(","s","e","c","r","e","t"," ","I","D",":"," ">>
             \o existing_secret_id.v \o <<")","."," ","U","s","e"," ","-","-","a","l","l","o","w","-","d","u","p","l","i","c","a","t","e"," ","t","o"," ","c","r","e","a","t","e"," ","a","n","y","w","a","y",".">>))
    ELSE Bind(Call(rs, existing_secret_id.tr, "create",
                   [organization_id |-> UuidStr(organization_id), key |-> key,
                    value |-> value, note |-> note, project_ids |-> ProjectUuids(pids)]),
              LAMBDA c :
      IF HasData(c.v)
      THEN IF c.v.data.id = None
           THEN Raise(c.tr, RuntimeError(<<"S","D","K","_","E","R","R","O","R",":"," ","S","e","c","r","e","t"," ","c","r","e","a","t","e","d"," ","b","u","t"," ","I","D"," ","i","s"," ","e","m","p","t","y","/","n","u","l","l">>))
           ELSE Ok(c.tr, c.v.data.id)
      ELSE FailedWrite(c, <<"."," ","T","h","i","s"," ","m","a","y"," ","i","n","d","i","c","a","t","e"," ","a","n"," ","i","n","v","a","l","i","d"," ","o","r","g","a","n","i","z","a","t","i","o","n"," ","I","D"," ","o","r"," ","i","n","s","u","f","f","i","c","i","e","n","t"," ","p","e","r","m","i","s","s","i","o","n","s",".">>)))

create_secret(rs, tr, access_token, organization_id, key, value, note, project_ids, allow_duplicate) ==
  Bind(login_access_token(rs, tr, access_token), LAMBDA login :
    IF ~(is_uuid(organization_id) /\ UuidParses(organization_id))
    THEN Raise(login.tr, InvalidOrgId(organization_id))
    ELSE IF ~Truthy(project_ids) \/ StripPieces(project_ids) = <<>>
    THEN Raise(login.tr, RuntimeError(<<"P","R","O","J","E","C","T","_","I","D","_","R","E","Q","U","I","R","E","D",":"," ","A","t"," ","l","e","a","s","t"," ","o","n","e"," ","p","r","o","j","e","c","t"," ","I","D"," ","i","s"," ","r","e","q","u","i","r","e","d","."," ","S","e","c","r","e","t","s"," ","m","u","s","t"," ","b","e"," ","c","r","e","a","t","e","d"," ","w","i","t","h","i","n"," ","a"," ","p","r","o","j","e","c","t",","," ","n","o","t"," ","a","t"," ","t","h","e"," ","o","r","g","a","n","i","z","a","t","i","o","n"," ","l","e","v","e","l",".">>))
    ELSE IF BadProjectId(StripPieces(project_ids)) # None
    THEN Raise(login.tr, InvalidProjectId(BadProjectId(StripPieces(project_ids))))
    ELSE create_secret_checked(rs, login.tr, organization_id, key, value, note,
                               StripPieces(project_ids), allow_duplicate))

\* ",".join([f'"{pid}"' for pid in ids])
RECURSIVE QuotedList(_)
QuotedList(ids) ==
  IF ids = <<>> THEN <<>>
  ELSE <<"\"">> \o Head(ids) \o <<"\"">>
         \o (IF Len(ids) > 1 THEN <<",">> ELSE <<>>) \o QuotedList(Tail(ids))

\* s.replace('"', ...) as the f-strings of handle_create and handle_update write
\* it: a double quote becomes two backslashes and a double quote.
EscapeQuote(s) == ReplaceStr(s, <<"\"">>, <<"\\", "\\", "\"">>)

\* The --json line of handle_create.
create_json(c, secret_id) ==
  <<"{","\"","s","e","c","r","e","t","_","i","d","\"",":","\"">> \o secret_id \o <<"\"",",","\"","k","e","y","\"",":","\"">> \o EscapeQuote(c.key) \o <<"\"",",","\"","o","r","g","_","i","d","\"",":","\"">>
    \o c.org_id \o <<"\"">>
    \o (IF Truthy(c.note) THEN <<",","\"","n","o","t","e","\"",":","\"">> \o EscapeQuote(c.note) \o <<"\"">> ELSE <<>>)
    \o <<",","\"","p","r","o","j","e","c","t","_","i","d","s","\"",":","[">> \o QuotedList(StripPieces(c.project_ids)) \o <<"]","}">>

\* handle_create's inner try around read_value_from_stdin.
ValueRequired(m) ==
  IF m.k = "exc" /\ m.exc.cls = "RuntimeError" /\ StartsWith(m.exc.msg, T_VALUE_REQUIRED)
  THEN Return(m.tr, 2, <<>>, m.exc)
  ELSE m

\* handle_create without its test of the project ids.
handle_create_run_any_projects(a, c, rs) ==
  IF ~Truthy(c.access_token) \/ ~Truthy(c.org_id) \/ ~Truthy(c.key)
  THEN Return(<<>>, 2, <<>>, NoExc)
  ELSE Bind(IF Truthy(c.value) THEN Ok(<<>>, c.value)
            ELSE ValueRequired(read_value_from_stdin(rs, <<>>)), LAMBDA secret_value :
         Try(create_secret(rs, secret_value.tr, c.access_token, c.org_id, c.key,
                           secret_value.v, c.note, c.project_ids, a.allow_duplicate),
             LAMBDA r :
           IF r.k = "exc" THEN Return(r.tr, handle_create_except(r.exc), <<>>, r.exc)
           ELSE Return(r.tr, 0, <<IF a.json THEN create_json(c, r.v) ELSE r.v>>, NoExc)))

\* The body of handle_create once the configuration c is resolved.
handle_create_run(a, c, rs) ==
  IF ~Truthy(c.access_token) \/ ~Truthy(c.org_id) \/ ~Truthy(c.key)
       \/ ~Truthy(c.project_ids)
  THEN Return(<<>>, 2, <<>>, NoExc)
  ELSE Bind(IF Truthy(c.value) THEN Ok(<<>>, c.value)
            ELSE ValueRequired(read_value_from_stdin(rs, <<>>)), LAMBDA secret_value :
         Try(create_secret(rs, secret_value.tr, c.access_token, c.org_id, c.key,
                           secret_value.v, c.note, c.project_ids, a.allow_duplicate),
             LAMBDA r :
           IF r.k = "exc" THEN Return(r.tr, handle_create_except(r.exc), <<>>, r.exc)
           ELSE Return(r.tr, 0, <<IF a.json THEN create_json(c, r.v) ELSE r.v>>, NoExc)))

handle_create(a, e, rs) == handle_create_run(a, resolve_create_config(a, e), rs)

----------------------------------------------------------------------------
(* delete *)

\* The first element of ids that is_uuid rejects, or None.
BadSecretId(ids) ==
  IF \E i \in 1..Len(ids) : ~is_uuid(ids[i])
  THEN ids[CHOOSE i \in 1..Len(ids) :
             ~is_uuid(ids[i]) /\ \A j \in 1..(i - 1) : is_uuid(ids[j])]
  ELSE None

InvalidSecretId(sid) ==
  RuntimeError(<<"I","N","V","A","L","I","D","_","I","D",":"," ","S","e","c","r","e","t"," ","I","D"," ","m","u","s","t"," ","b","e"," ","a"," ","v","a","l","i","d"," ","U","U","I","D"," ","f","o","r","m","a","t","."," ","G","o","t",":"," ","'">> \o sid \o <<"'",".">>)

\* Unique keeping every occurrence.
Unique_keep_all(ids) == ids

\* Remove duplicates while preserving order.
RECURSIVE Unique(_)
Unique(ids) ==
  IF ids = <<>> THEN <<>>
  ELSE <<Head(ids)>> \o Unique(SelectSeq(Tail(ids), LAMBDA x : x # Head(ids)))

\* `except RuntimeError` around find_secret_by_name in resolve_secret_ids and in
\* handle_update: MULTIPLE_SECRETS is raised again under the tag of the
\* subcommand, msg[len('MULTIPLE_SECRETS: '):] between prefix and suffix.
Reraised(m, prefix, suffix) ==
  IF m.k = "exc" /\ m.exc.cls = "RuntimeError" /\ StartsWith(m.exc.msg, T_MULTIPLE_SECRETS)
  THEN Raise(m.tr, RuntimeError(
         prefix \o DropPrefix(m.exc.msg, Len(T_MULTIPLE_SECRETS) + 1) \o suffix))
  ELSE m

resolve_secret_ids(rs, tr, access_token, secret_ids, secret_name, org_id) ==
  Bind(login_access_token(rs, tr, access_token), LAMBDA login :
    IF BadSecretId(secret_ids) # None
    THEN Raise(login.tr, InvalidSecretId(BadSecretId(secret_ids)))
    ELSE IF ~Truthy(secret_name) THEN Ok(login.tr, Unique(secret_ids))
    ELSE IF ~Truthy(org_id)
    THEN Raise(login.tr, RuntimeError(<<"O","R","G","_","I","D","_","R","E","Q","U","I","R","E","D",":"," ","O","r","g","a","n","i","z","a","t","i","o","n"," ","I","D"," ","i","s"," ","r","e","q","u","i","r","e","d"," ","w","h","e","n"," ","u","s","i","n","g"," ","-","-","s","e","c","r","e","t","-","n","a","m","e"," ","(","p","r","o","v","i","d","e"," ","v","i","a"," ","-","-","o","r","g","-","i","d"," ","o","r"," ","B","W","S","_","O","R","G","_","I","D"," ","e","n","v","i","r","o","n","m","e","n","t"," ","v","a","r","i","a","b","l","e",")">>))
    ELSE Bind(Reraised(find_secret_by_name(rs, login.tr, secret_name, org_id),
                <<"M","U","L","T","I","P","L","E","_","S","E","C","R","E","T","S","_","D","E","L","E","T","E",":"," ","C","a","n","n","o","t"," ","d","e","l","e","t","e"," ","b","y"," ","n","a","m","e"," ","w","h","e","n"," ","m","u","l","t","i","p","l","e"," ","s","e","c","r","e","t","s"," ","s","h","a","r","e"," ","t","h","e"," ","s","a","m","e"," ","n","a","m","e","."," ">>,
                <<"\\","n","\\","n","F","o","r"," ","s","a","f","e","t","y",","," ","u","s","e"," ","-","-","s","e","c","r","e","t","-","i","d"," ","<","u","u","i","d",">"," ","t","o"," ","e","x","p","l","i","c","i","t","l","y"," ","s","p","e","c","i","f","y"," ","w","h","i","c","h"," ","s","e","c","r","e","t"," ","t","o"," ","d","e","l","e","t","e",".">>),
              LAMBDA secret_id : Ok(secret_id.tr, Unique(Append(secret_ids, secret_id.v)))))

\* The existence loop of delete_secret: one lookup per id; an id whose lookup
\* raises, is unsuccessful or has no data is missing.
RECURSIVE ExistenceCheck(_, _, _, _, _)
ExistenceCheck(rs, tr, ids, existing, missing) ==
  IF ids = <<>> THEN Ok(tr, [existing |-> existing, missing |-> missing])
  ELSE Try(Call(rs, tr, "get", Head(ids)), LAMBDA g :
         IF g.k = "ok" /\ HasData(g.v)
         THEN ExistenceCheck(rs, g.tr, Tail(ids), Append(existing, Head(ids)), missing)
         ELSE ExistenceCheck(rs, g.tr, Tail(ids), existing, Append(missing, Head(ids))))

\* ", ".join([f"'{sid}'" for sid in missing_secret_ids])
RECURSIVE QuotedIds(_)
QuotedIds(ids) ==
  IF ids = <<>> THEN <<>>
  ELSE <<"'">> \o Head(ids) \o <<"'">>
         \o (IF Len(ids) > 1 THEN <<",", " ">> ELSE <<>>) \o QuotedIds(Tail(ids))

MissingSecrets(missing) ==
  IF Len(missing) = 1
  THEN RuntimeError(<<"N","O","T","_","F","O","U","N","D",":"," ","S","e","c","r","e","t"," ","w","i","t","h"," ","I","D"," ","'">> \o missing[1]
         \o <<"'"," ","d","o","e","s"," ","n","o","t"," ","e","x","i","s","t"," ","o","r"," ","y","o","u"," ","m","a","y"," ","n","o","t"," ","h","a","v","e"," ","p","e","r","m","i","s","s","i","o","n"," ","t","o"," ","a","c","c","e","s","s"," ","i","t",".">>)
  ELSE RuntimeError(<<"N","O","T","_","F","O","U","N","D",":"," ","S","e","c","r","e","t","s"," ","w","i","t","h"," ","I","D","s"," ">> \o QuotedIds(missing)
         \o <<" ","d","o"," ","n","o","t"," ","e","x","i","s","t"," ","o","r"," ","y","o","u"," ","m","a","y"," ","n","o","t"," ","h","a","v","e"," ","p","e","r","m","i","s","s","i","o","n"," ","t","o"," ","a","c","c","e","s","s"," ","t","h","e","m",".">>)

\* delete_secret deleting the secrets found although others are missing.
delete_secret_despite_missing(rs, tr, access_token, secret_ids) ==
  IF secret_ids = <<>>
  THEN Raise(tr, RuntimeError(<<"I","N","V","A","L","I","D","_","I","D",":"," ","N","o"," ","s","e","c","r","e","t"," ","I","D","s"," ","p","r","o","v","i","d","e","d"," ","f","o","r"," ","d","e","l","e","t","i","o","n">>))
  ELSE Bind(login_access_token(rs, tr, access_token), LAMBDA login :
    IF BadSecretId(secret_ids) # None
    THEN Raise(login.tr, InvalidSecretId(BadSecretId(secret_ids)))
    ELSE Bind(ExistenceCheck(rs, login.tr, secret_ids, <<>>, <<>>), LAMBDA found :
      IF found.v.existing = <<>> THEN Raise(found.tr, MissingSecrets(found.v.missing))
      ELSE Bind(Call(rs, found.tr, "delete", found.v.existing), LAMBDA d :
        IF Success(d.v) THEN Ok(d.tr, found.v.existing)
        ELSE FailedWrite(d, <<"."," ","O","n","e"," ","o","r"," ","m","o","r","e"," ","s","e","c","r","e","t","s"," ","m","a","y"," ","n","o","t"," ","e","x","i","s","t"," ","o","r"," ","y","o","u"," ","m","a","y"," ","n","o","t"," ","h","a","v","e"," ","p","e","r","m","i","s","s","i","o","n"," ","t","o"," ","d","e","l","e","t","e"," ","t","h","e","m",".">>))))

delete_secret(rs, tr, access_token, secret_ids) ==
  IF secret_ids = <<>>
  THEN Raise(tr, RuntimeError(<<"I","N","V","A","L","I","D","_","I","D",":"," ","N","o"," ","s","e","c","r","e","t"," ","I","D","s"," ","p","r","o","v","i","d","e","d"," ","f","o","r"," ","d","e","l","e","t","i","o","n">>))
  ELSE Bind(login_access_token(rs, tr, access_token), LAMBDA login :
    IF BadSecretId(secret_ids) # None
    THEN Raise(login.tr, InvalidSecretId(BadSecretId(secret_ids)))
    ELSE Bind(ExistenceCheck(rs, login.tr, secret_ids, <<>>, <<>>), LAMBDA found :
      IF found.v.missing # <<>> THEN Raise(found.tr, MissingSecrets(found.v.missing))
      ELSE IF found.v.existing = <<>> THEN Ok(found.tr, <<>>)
      ELSE Bind(Call(rs, found.tr, "delete", found.v.existing), LAMBDA d :
        IF Success(d.v) THEN Ok(d.tr, found.v.existing)
        ELSE FailedWrite(d, <<"."," ","O","n","e"," ","o","r"," ","m","o","r","e"," ","s","e","c","r","e","t","s"," ","m","a","y"," ","n","o","t"," ","e","x","i","s","t"," ","o","r"," ","y","o","u"," ","m","a","y"," ","n","o","t"," ","h","a","v","e"," ","p","e","r","m","i","s","s","i","o","n"," ","t","o"," ","d","e","l","e","t","e"," ","t","h","e","m",".">>))))

\* delete_confirmation without the refusal of a standard input that is no
\* terminal: the deletion then proceeds unattended.
delete_confirmation_unattended(rs, tr, force) ==
  IF force THEN Ok(tr, TRUE)
  ELSE Bind(Call(rs, tr, "isatty", None), LAMBDA t :
    IF t.v.kind = "tty"
    THEN Try(Call(rs, t.tr, "input", None), LAMBDA response :
           IF response.k = "exc"
           THEN IF response.exc.cls \in {"EOFError", "KeyboardInterrupt"}
                THEN Return(response.tr, 2, <<>>, NoExc)
                ELSE response
           ELSE IF Lower(Strip(response.v.data)) \in {S_y, S_yes}
           THEN Ok(response.tr, TRUE)
           ELSE Return(response.tr, 2, <<>>, NoExc))
    ELSE Ok(t.tr, TRUE))

\* The confirmation prompt of handle_delete: --force, or a terminal and an
\* answer that is "y" or "yes" once stripped and lower-cased.
delete_confirmation(rs, tr, force) ==
  IF force THEN Ok(tr, TRUE)
  ELSE Bind(Call(rs, tr, "isatty", None), LAMBDA t :
    IF t.v.kind = "tty"
    THEN Try(Call(rs, t.tr, "input", None), LAMBDA response :
           IF response.k = "exc"
           THEN IF response.exc.cls \in {"EOFError", "KeyboardInterrupt"}
                THEN Return(response.tr, 2, <<>>, NoExc)
                ELSE response
           ELSE IF Lower(Strip(response.v.data)) \in {S_y, S_yes}
           THEN Ok(response.tr, TRUE)
           ELSE Return(response.tr, 2, <<>>, NoExc))
    ELSE Return(t.tr, 2, <<>>, NoExc))

\* The --json line of handle_delete.
delete_json(deleted_ids) ==
  <<"{","\"","d","e","l","e","t","e","d","_","s","e","c","r","e","t","_","i","d","s","\"",":","[">> \o QuotedList(deleted_ids) \o <<"]",",","\"","c","o","u","n","t","\"",":">>
    \o IntStr(Len(deleted_ids)) \o <<"}">>

\* The try block of handle_delete writing its JSON line whether --json is
\* given or not.
handle_delete_try_always_json(a, c, rs) ==
  Bind(resolve_secret_ids(rs, <<>>, c.access_token, c.secret_ids, c.secret_name, c.org_id),
       LAMBDA resolved_secret_ids :
    IF resolved_secret_ids.v = <<>> THEN Return(resolved_secret_ids.tr, 2, <<>>, NoExc)
    ELSE Bind(delete_confirmation(rs, resolved_secret_ids.tr, a.force), LAMBDA confirmed :
      Bind(delete_secret(rs, confirmed.tr, c.access_token, resolved_secret_ids.v),
           LAMBDA deleted_ids :
        Return(deleted_ids.tr, 0, <<delete_json(deleted_ids.v)>>, NoExc))))

\* The try block of handle_delete.
handle_delete_try(a, c, rs) ==
  Bind(resolve_secret_ids(rs, <<>>, c.access_token, c.secret_ids, c.secret_name, c.org_id),
       LAMBDA resolved_secret_ids :
    IF resolved_secret_ids.v = <<>> THEN Return(resolved_secret_ids.tr, 2, <<>>, NoExc)
    ELSE Bind(delete_confirmation(rs, resolved_secret_ids.tr, a.force), LAMBDA confirmed :
      Bind(delete_secret(rs, confirmed.tr, c.access_token, resolved_secret_ids.v),
           LAMBDA deleted_ids :
        Return(deleted_ids.tr, 0,
               IF a.json THEN <<delete_json(deleted_ids.v)>> ELSE deleted_ids.v, NoExc))))

\* What the except clauses of a handler make of the outcome m of its try block.
Except(m, code(_)) ==
  IF m.k = "exc" THEN Return(m.tr, code(m.exc), <<>>, m.exc) ELSE m

\* handle_delete without its organization id check of lines 1921-1927.
handle_delete_run_org_unchecked(a, c, rs) ==
  IF ~Truthy(c.access_token) THEN Return(<<>>, 2, <<>>, NoExc)
  ELSE IF c.secret_ids = <<>> /\ ~Truthy(c.secret_name) THEN Return(<<>>, 2, <<>>, NoExc)
  ELSE Except(handle_delete_try(a, c, rs), handle_delete_except)

\* The body of handle_delete once the configuration c is resolved.
handle_delete_run(a, c, rs) ==
  IF ~Truthy(c.access_token) THEN Return(<<>>, 2, <<>>, NoExc)
  ELSE IF Truthy(c.secret_name) /\ ~Truthy(c.org_id) THEN Return(<<>>, 2, <<>>, NoExc)
  ELSE IF c.secret_ids = <<>> /\ ~Truthy(c.secret_name) THEN Return(<<>>, 2, <<>>, NoExc)
  ELSE Except(handle_delete_try(a, c, rs), handle_delete_except)

handle_delete(a, e, rs) ==
  IF a.secret_id = <<>> /\ ~Truthy(a.secret_name)
  THEN Return(<<>>, 2, <<>>, NoExc)
  ELSE handle_delete_run(a, resolve_delete_config(a, e), rs)

----------------------------------------------------------------------------
(* update *)

get_secret_for_update(rs, tr, secret_id) ==
  Bind(Call(rs, tr, "get", secret_id), LAMBDA g :
    IF ~Success(g.v)
    THEN Raise(g.tr, RuntimeError(<<"N","O","T","_","F","O","U","N","D",":"," ","S","e","c","r","e","t"," ","w","i","t","h"," ","I","D"," ","'">> \o secret_id
           \o <<"'"," ","d","o","e","s"," ","n","o","t"," ","e","x","i","s","t"," ","o","r"," ","y","o","u"," ","m","a","y"," ","n","o","t"," ","h","a","v","e"," ","p","e","r","m","i","s","s","i","o","n"," ","t","o"," ","a","c","c","e","s","s"," ","i","t","."," ">> \o Str(g.v.msg)))
    ELSE IF ~HasData(g.v)
    THEN Raise(g.tr, RuntimeError(<<"N","O","T","_","F","O","U","N","D",":"," ","S","e","c","r","e","t"," ","w","i","t","h"," ","I","D"," ","'">> \o secret_id
           \o <<"'"," ","n","o","t"," ","f","o","u","n","d"," ","o","r"," ","h","a","s"," ","n","o"," ","d","a","t","a",".">>))
    ELSE Ok(g.tr, [key |-> g.v.data.key, value |-> g.v.data.value, note |-> g.v.data.note,
                   project_id |-> g.v.data.project_id,
                   organization_id |-> g.v.data.organization_id]))

\* merged without the fall-back to the stored field.
merged_as_given(x, current) == x

\* `x if x is not None else current`
merged(x, current) == IF x # None THEN x ELSE current

\* update_project_ids without the refusal of a --project-ids value that has no
\* piece in it.
update_project_ids_unchecked(tr, project_ids, current_secret) ==
  IF project_ids # None
  THEN IF BadProjectId(StripPieces(project_ids)) # None
       THEN Raise(tr, InvalidProjectId(BadProjectId(StripPieces(project_ids))))
       ELSE Ok(tr, ProjectUuids(StripPieces(project_ids)))
  ELSE IF Truthy(current_secret.project_id)
  THEN Ok(tr, <<UuidStr(current_secret.project_id)>>)
  ELSE Ok(tr, <<>>)

\* The project list update_secret sends: the --project-ids pieces, or the
\* secret's current project.
update_project_ids(tr, project_ids, current_secret) ==
  IF project_ids # None
  THEN IF StripPieces(project_ids) = <<>>
       THEN Raise(tr, RuntimeError(<<"I","N","V","A","L","I","D","_","I","D",":"," ","P","r","o","j","e","c","t"," ","I","D","s"," ","c","a","n","n","o","t"," ","b","e"," ","e","m","p","t","y","."," ","P","r","o","v","i","d","e"," ","a","t"," ","l","e","a","s","t"," ","o","n","e"," ","v","a","l","i","d"," ","U","U","I","D",".">>))
       ELSE IF BadProjectId(StripPieces(project_ids)) # None
       THEN Raise(tr, InvalidProjectId(BadProjectId(StripPieces(project_ids))))
       ELSE Ok(tr, ProjectUuids(StripPieces(project_ids)))
  ELSE IF Truthy(current_secret.project_id)
  THEN IF UuidParses(current_secret.project_id)
       THEN Ok(tr, <<UuidStr(current_secret.project_id)>>)
       ELSE Raise(tr, RuntimeError(<<"I","N","V","A","L","I","D","_","I","D",":"," ","C","u","r","r","e","n","t"," ","s","e","c","r","e","t"," ","h","a","s"," ","n","o"," ","v","a","l","i","d"," ","p","r","o","j","e","c","t","_","i","d","."," ","Y","o","u"," ","m","u","s","t"," ","p","r","o","v","i","d","e"," ","-","-","p","r","o","j","e","c","t","-","i","d","s"," ","w","h","e","n"," ","u","p","d","a","t","i","n","g",".">>))
  ELSE Raise(tr, RuntimeError(<<"I","N","V","A","L","I","D","_","I","D",":"," ","C","u","r","r","e","n","t"," ","s","e","c","r","e","t"," ","h","a","s"," ","n","o"," ","p","r","o","j","e","c","t","_","i","d"," ","(","i","t"," ","m","a","y"," ","h","a","v","e"," ","b","e","e","n"," ","r","e","m","o","v","e","d"," ","f","r","o","m"," ","i","t","s"," ","p","r","o","j","e","c","t",")","."," ","Y","o","u"," ","m","u","s","t"," ","p","r","o","v","i","d","e"," ","-","-","p","r","o","j","e","c","t","-","i","d","s"," ","w","h","e","n"," ","u","p","d","a","t","i","n","g"," ","t","o"," ","a","s","s","i","g","n"," ","i","t"," ","t","o"," ","a"," ","p","r","o","j","e","c","t",".">>))

update_secret(rs, tr, access_token, secret_id, organization_id, key, value, note, project_ids) ==
  Bind(login_access_token(rs, tr, access_token), LAMBDA login :
    IF ~is_uuid(secret_id) THEN Raise(login.tr, InvalidSecretId(secret_id))
    ELSE IF ~(is_uuid(organization_id) /\ UuidParses(organization_id))
    THEN Raise(login.tr, InvalidOrgId(organization_id))
    ELSE Bind(get_secret_for_update(rs, login.tr, secret_id), LAMBDA current_secret :
      Bind(update_project_ids(current_secret.tr, project_ids, current_secret.v),
           LAMBDA project_uuid_list :
        Bind(Call(rs, project_uuid_list.tr, "update",
                  [organization_id |-> UuidStr(organization_id), id |-> secret_id,
                   key |-> merged(key, current_secret.v.key),
                   value |-> merged(value, current_secret.v.value),
                   note |-> merged(note, current_secret.v.note),
                   project_ids |-> project_uuid_list.v]), LAMBDA u :
          IF HasData(u.v)
          THEN IF u.v.data.id = None
               THEN Raise(u.tr, RuntimeError(<<"S","D","K","_","E","R","R","O","R",":"," ","S","e","c","r","e","t"," ","u","p","d","a","t","e","d"," ","b","u","t"," ","I","D"," ","i","s"," ","e","m","p","t","y","/","n","u","l","l">>))
               ELSE Ok(u.tr, u.v.data.id)
          ELSE FailedWrite(u, <<"."," ","T","h","i","s"," ","m","a","y"," ","i","n","d","i","c","a","t","e"," ","t","h","e"," ","s","e","c","r","e","t"," ","d","o","e","s","n","'","t"," ","e","x","i","s","t",","," ","i","n","v","a","l","i","d"," ","o","r","g","a","n","i","z","a","t","i","o","n"," ","I","D",","," ","o","r"," ","i","n","s","u","f","f","i","c","i","e","n","t"," ","p","e","r","m","i","s","s","i","o","n","s",".">>)))))

\* handle_update, lines 1673-1698: the id given, or the one the name resolves to.
update_resolve_id(c, rs) ==
  IF ~Truthy(c.secret_name) THEN Ok(<<>>, c.secret_id)
  ELSE IF ~Truthy(c.org_id)
  THEN Raise(<<>>, RuntimeError(<<"O","R","G","_","I","D","_","R","E","Q","U","I","R","E","D",":"," ","O","r","g","a","n","i","z","a","t","i","o","n"," ","I","D"," ","i","s"," ","r","e","q","u","i","r","e","d"," ","w","h","e","n"," ","u","s","i","n","g"," ","-","-","s","e","c","r","e","t","-","n","a","m","e"," ","(","p","r","o","v","i","d","e"," ","v","i","a"," ","-","-","o","r","g","-","i","d"," ","o","r"," ","B","W","S","_","O","R","G","_","I","D"," ","e","n","v","i","r","o","n","m","e","n","t"," ","v","a","r","i","a","b","l","e",")">>))
  ELSE Bind(login_access_token(rs, <<>>, c.access_token), LAMBDA login :
         Reraised(find_secret_by_name(rs, login.tr, c.secret_name, c.org_id),
           <<"M","U","L","T","I","P","L","E","_","S","E","C","R","E","T","S","_","U","P","D","A","T","E",":"," ","C","a","n","n","o","t"," ","u","p","d","a","t","e"," ","b","y"," ","n","a","m","e"," ","w","h","e","n"," ","m","u","l","t","i","p","l","e"," ","s","e","c","r","e","t","s"," ","s","h","a","r","e"," ","t","h","e"," ","s","a","m","e"," ","n","a","m","e","."," ">>,
           <<"\\","n","\\","n","F","o","r"," ","s","a","f","e","t","y",","," ","u","s","e"," ","-","-","s","e","c","r","e","t","-","i","d"," ","<","u","u","i","d",">"," ","t","o"," ","e","x","p","l","i","c","i","t","l","y"," ","s","p","e","c","i","f","y"," ","w","h","i","c","h"," ","s","e","c","r","e","t"," ","t","o"," ","u","p","d","a","t","e",".">>))

\* `except RuntimeError` around get_secret_for_update in handle_update.
NotFoundReturns4(m) ==
  IF m.k = "exc" /\ m.exc.cls = "RuntimeError" /\ StartsWith(m.exc.msg, T_NOT_FOUND)
  THEN Return(m.tr, 4, <<>>, m.exc)
  ELSE m

\* handle_update, lines 1705-1755: log in and fetch the secret as it is now;
\* without an organization id, take the secret's.
update_current_secret(c, rs, tr, resolved_secret_id) ==
  Bind(login_access_token(rs, tr, c.access_token), LAMBDA login :
    Bind(NotFoundReturns4(get_secret_for_update(rs, login.tr, resolved_secret_id)),
         LAMBDA current_secret :
      IF ~Truthy(c.org_id) /\ ~Truthy(current_secret.v.organization_id)
      THEN Return(current_secret.tr, 2, <<>>, NoExc)
      ELSE current_secret))

\* resolved_org_id
update_org_id(c, current_secret) ==
  IF Truthy(c.org_id) THEN c.org_id ELSE current_secret.organization_id

\* update_confirmation taking any answer but an interruption for a yes.
update_confirmation_any_answer(rs, tr, current_secret, project_ids, force) ==
  IF Truthy(current_secret.project_id) THEN Ok(tr, TRUE)
  ELSE IF ~Truthy(project_ids) THEN Return(tr, 2, <<>>, NoExc)
  ELSE IF force THEN Ok(tr, TRUE)
  ELSE Bind(Call(rs, tr, "isatty", None), LAMBDA t :
    IF t.v.kind = "tty"
    THEN Try(Call(rs, t.tr, "input", None), LAMBDA response :
           IF response.k = "exc"
           THEN IF response.exc.cls \in {"EOFError", "KeyboardInterrupt"}
                THEN Return(response.tr, 2, <<>>, NoExc)
                ELSE response
           ELSE Ok(response.tr, TRUE))
    ELSE Return(t.tr, 2, <<>>, NoExc))

\* handle_update, lines 1757-1792: a secret without a project needs
\* --project-ids and either --force or a "y"/"yes" typed at a terminal.
update_confirmation(rs, tr, current_secret, project_ids, force) ==
  IF Truthy(current_secret.project_id) THEN Ok(tr, TRUE)
  ELSE IF ~Truthy(project_ids) THEN Return(tr, 2, <<>>, NoExc)
  ELSE IF force THEN Ok(tr, TRUE)
  ELSE Bind(Call(rs, tr, "isatty", None), LAMBDA t :
    IF t.v.kind = "tty"
    THEN Try(Call(rs, t.tr, "input", None), LAMBDA response :
           IF response.k = "exc"
           THEN IF response.exc.cls \in {"EOFError", "KeyboardInterrupt"}
                THEN Return(response.tr, 2, <<>>, NoExc)
                ELSE response
           ELSE IF Lower(Strip(response.v.data)) \in {S_y, S_yes}
           THEN Ok(response.tr, TRUE)
           ELSE Return(response.tr, 2, <<>>, NoExc))
    ELSE Return(t.tr, 2, <<>>, NoExc))

\* `except RuntimeError` around read_value_from_stdin in handle_update.
ValueOrCurrent(m) ==
  IF m.k = "exc" /\ m.exc.cls = "RuntimeError" /\ StartsWith(m.exc.msg, T_VALUE_REQUIRED)
  THEN Ok(m.tr, None)
  ELSE m

\* handle_update, lines 1794-1811: stdin is read only for a value that is
\* neither None nor non-empty.
update_value(rs, tr, value) ==
  IF value = None \/ Truthy(value) THEN Ok(tr, value)
  ELSE ValueOrCurrent(read_value_from_stdin(rs, tr))

\* The --json line of handle_update.
update_json(updated_secret_id, updated_secret, resolved_org_id) ==
  <<"{","\"","s","e","c","r","e","t","_","i","d","\"",":","\"">> \o updated_secret_id \o <<"\"",",","\"","k","e","y","\"",":","\"">> \o EscapeQuote(updated_secret.key)
    \o <<"\"",",","\"","v","a","l","u","e","\"",":","\"">> \o EscapeValue(updated_secret.value)
    \o <<"\"",",","\"","o","r","g","_","i","d","\"",":","\"">> \o resolved_org_id \o <<"\"">>
    \o (IF Truthy(updated_secret.note)
        THEN <<",","\"","n","o","t","e","\"",":","\"">> \o EscapeQuote(updated_secret.note) \o <<"\"">> ELSE <<>>)
    \o (IF Truthy(updated_secret.project_id)
        THEN <<",","\"","p","r","o","j","e","c","t","_","i","d","\"",":","\"">> \o updated_secret.project_id \o <<"\"">> ELSE <<>>)
    \o <<"}">>

\* handle_update, lines 1825-1850: print the id, or with --json log in again
\* and fetch the secret for the line to print.
update_output(a, rs, tr, ac, updated_secret_id, resolved_org_id) ==
  IF ~a.json THEN Return(tr, 0, <<updated_secret_id>>, NoExc)
  ELSE Bind(Call(rs, tr, "login", ac), LAMBDA login :
    IF Success(login.v)
    THEN Bind(get_secret_for_update(rs, login.tr, updated_secret_id), LAMBDA updated_secret :
           Return(updated_secret.tr, 0,
                  <<update_json(updated_secret_id, updated_secret.v, resolved_org_id)>>, NoExc))
    ELSE Return(login.tr, 0, <<<<"{","\"","s","e","c","r","e","t","_","i","d","\"",":","\"">> \o updated_secret_id \o <<"\"","}">>>>, NoExc))

\* The try block of handle_update.
handle_update_try(a, c, rs) ==
  Bind(update_resolve_id(c, rs), LAMBDA resolved_secret_id :
    IF ~Truthy(resolved_secret_id.v) THEN Return(resolved_secret_id.tr, 2, <<>>, NoExc)
    ELSE
    Bind(update_current_secret(c, rs, resolved_secret_id.tr, resolved_secret_id.v),
         LAMBDA current_secret :
    Bind(update_confirmation(rs, current_secret.tr, current_secret.v, c.project_ids, a.force),
         LAMBDA confirmed :
    Bind(update_value(rs, confirmed.tr, c.value), LAMBDA secret_value :
    Bind(update_secret(rs, secret_value.tr, c.access_token, resolved_secret_id.v,
                       update_org_id(c, current_secret.v), c.key, secret_value.v, c.note,
                       c.project_ids), LAMBDA updated_secret_id :
      update_output(a, rs, updated_secret_id.tr, c.access_token, updated_secret_id.v,
                    update_org_id(c, current_secret.v)))))))

\* The body of handle_update once the configuration c is resolved.
handle_update_run(a, c, rs) ==
  IF ~Truthy(c.access_token) THEN Return(<<>>, 2, <<>>, NoExc)
  ELSE IF Truthy(c.secret_name) /\ ~Truthy(c.org_id) THEN Return(<<>>, 2, <<>>, NoExc)
  ELSE IF ~Truthy(c.key) /\ ~Truthy(c.value) /\ ~Truthy(c.note) /\ ~Truthy(c.project_ids)
  THEN Return(<<>>, 2, <<>>, NoExc)
  ELSE Except(handle_update_try(a, c, rs), handle_update_except)

handle_update(a, e, rs) ==
  IF Truthy(a.secret_id) /\ Truthy(a.secret_name) THEN Return(<<>>, 2, <<>>, NoExc)
  ELSE IF ~Truthy(a.secret_id) /\ ~Truthy(a.secret_name) THEN Return(<<>>, 2, <<>>, NoExc)
  ELSE handle_update_run(a, resolve_update_config(a, e), rs)

----------------------------------------------------------------------------
(* list *)

\* The first loop of list_secrets: the listed secrets that have an id and whose
\* key contains key_pattern, as {"id", "key"} entries.
KeyFiltered(secrets, key_pattern) ==
  LET kept == SelectSeq(secrets, LAMBDA s :
                /\ Truthy(s.id)
                /\ (Truthy(key_pattern) => Truthy(s.key) /\ Contains(s.key, key_pattern)))
  IN [i \in 1..Len(kept) |->
        [id |-> kept[i].id, key |-> kept[i].key, project_id |-> None, note |-> None]]

\* The second loop of list_secrets: one lookup per remaining secret; it is kept
\* when the lookup succeeds and reports the project asked for.
RECURSIVE ProjectFiltered(_, _, _, _, _)
ProjectFiltered(rs, tr, infos, project_id, matching_secrets) ==
  IF infos = <<>> THEN Ok(tr, matching_secrets)
  ELSE Try(Call(rs, tr, "get", Head(infos).id), LAMBDA g :
         ProjectFiltered(rs, g.tr, Tail(infos), project_id,
           IF /\ g.k = "ok"
              /\ HasData(g.v)
              /\ g.v.data.project_id # None
              /\ g.v.data.project_id = project_id
           THEN Append(matching_secrets,
                       [Head(infos) EXCEPT !.project_id = g.v.data.project_id,
                                           !.note = g.v.data.note])
           ELSE matching_secrets))

list_secrets(rs, tr, access_token, organization_id, project_id, key_pattern) ==
  Bind(login_access_token(rs, tr, access_token), LAMBDA login :
    IF ~(is_uuid(organization_id) /\ UuidParses(organization_id))
    THEN Raise(login.tr, InvalidOrgId(organization_id))
    ELSE IF Truthy(project_id) /\ ~is_uuid(project_id)
    THEN Raise(login.tr, InvalidProjectId(project_id))
    ELSE Bind(Call(rs, login.tr, "list", UuidStr(organization_id)), LAMBDA c :
      IF ~Success(c.v) THEN Raise(c.tr, RuntimeError(Tagged(T_LIST_ERROR, c.v.msg)))
      ELSE IF ~HasData(c.v)
      THEN Raise(c.tr, RuntimeError(<<"L","I","S","T","_","E","R","R","O","R",":"," ","N","o"," ","d","a","t","a"," ","r","e","t","u","r","n","e","d"," ","f","r","o","m"," ","s","e","c","r","e","t","s"," ","l","i","s","t">>))
      ELSE IF Truthy(project_id)
      THEN ProjectFiltered(rs, c.tr, KeyFiltered(c.v.data, key_pattern), project_id, <<>>)
      ELSE Ok(c.tr, KeyFiltered(c.v.data, key_pattern))))

\* `secret.get(field, "") or ""`
OrEmpty(x) == IF Truthy(x) THEN x ELSE <<>>

Max(a, b) == IF a >= b THEN a ELSE b
Min(a, b) == IF a <= b THEN a ELSE b

\* max(len(x) for x in column)
RECURSIVE MaxLen(_)
MaxLen(column) ==
  IF column = <<>> THEN 0 ELSE Max(Len(OrEmpty(Head(column))), MaxLen(Tail(column)))

\* f"{s:<{width}}"
PadTo(s, width) == IF Len(s) >= width THEN s ELSE s \o Rep(width - Len(s), " ")

\* s[:width-3] + "..." when s is longer than width
Truncated(s, width) ==
  IF Len(s) > width THEN SubSeq(s, 1, width - 3) \o <<".",".",".">> ELSE s

Column(secrets, field) == [i \in 1..Len(secrets) |-> secrets[i][field]]

TableRow(a, b, c, d, secrets) ==
  PadTo(a, 36) \o <<" "," ">>
    \o PadTo(b, Min(Max(MaxLen(Column(secrets, "key")), 20), 50)) \o <<" "," ">>
    \o PadTo(c, 36) \o <<" "," ">>
    \o PadTo(d, Min(Max(MaxLen(Column(secrets, "note")), 30), 50))

\* The lines of the table: header, separator, one row per secret.
format_secrets_table(secrets) ==
  IF secrets = <<>> THEN <<<<"N","o"," ","s","e","c","r","e","t","s"," ","f","o","u","n","d",".">>>>
  ELSE <<TableRow(<<"I","D">>, <<"K","e","y">>, <<"P","r","o","j","e","c","t"," ","I","D">>, <<"N","o","t","e">>, secrets),
         Rep(Len(TableRow(<<"I","D">>, <<"K","e","y">>, <<"P","r","o","j","e","c","t"," ","I","D">>, <<"N","o","t","e">>, secrets)), "-")>>
       \o [i \in 1..Len(secrets) |->
             TableRow(OrEmpty(secrets[i].id),
                      Truncated(OrEmpty(secrets[i].key),
                                Min(Max(MaxLen(Column(secrets, "key")), 20), 50)),
                      OrEmpty(secrets[i].project_id),
                      Truncated(OrEmpty(secrets[i].note),
                                Min(Max(MaxLen(Column(secrets, "note")), 30), 50)),
                      secrets)]

\* s.replace("\\", "\\\\").replace('"', '\\"')
EscapeJson(s) ==
  ReplaceStr(ReplaceStr(s, <<"\\">>, <<"\\", "\\">>), <<"\"">>, <<"\\", "\"">>)

secret_json(secret) ==
  <<"{","\"","s","e","c","r","e","t","_","i","d","\"",":","\"">> \o OrEmpty(secret.id) \o <<"\"",",","\"","k","e","y","\"",":","\"">> \o EscapeJson(OrEmpty(secret.key))
    \o <<"\"">>
    \o (IF Truthy(secret.project_id)
        THEN <<",","\"","p","r","o","j","e","c","t","_","i","d","\"",":","\"">> \o secret.project_id \o <<"\"">> ELSE <<",","\"","p","r","o","j","e","c","t","_","i","d","\"",":","n","u","l","l">>)
    \o (IF Truthy(secret.note)
        THEN <<",","\"","n","o","t","e","\"",":","\"">> \o EscapeJson(secret.note) \o <<"\"">> ELSE <<",","\"","n","o","t","e","\"",":","n","u","l","l">>)
    \o <<"}">>

format_secrets_json(secrets) ==
  IF secrets = <<>> THEN <<"[","]">>
  ELSE <<"[">> \o Join([i \in 1..Len(secrets) |-> secret_json(secrets[i])], <<",">>) \o <<"]">>

\* The body of handle_list once the configuration c is resolved.
handle_list_run(a, c, rs) ==
  IF ~Truthy(c.access_token) \/ ~Truthy(c.org_id)
  THEN Return(<<>>, 2, <<>>, NoExc)
  ELSE Except(Bind(list_secrets(rs, <<>>, c.access_token, c.org_id, c.project_id,
                                c.key_pattern), LAMBDA secrets :
                Return(secrets.tr, 0,
                       IF a.json THEN <<format_secrets_json(secrets.v)>>
                       ELSE format_secrets_table(secrets.v), NoExc)),
              handle_list_except)

handle_list(a, e, rs) == handle_list_run(a, resolve_list_config(a, e), rs)

----------------------------------------------------------------------------
(* --debug *)

\* The two streams of a run that has written nothing.
NoOutput == [out |-> <<>>, err |-> <<>>]

\* An eprint that writes to standard output.
eprint_to_stdout(streams, lines) == [streams EXCEPT !.out = @ \o lines]

\* print(*args, file=sys.stderr, **kwargs)
eprint(streams, lines) == [streams EXCEPT !.err = @ \o lines]

\* The "Debug info:" lines of handle_get's configuration error.
FlagState(x) ==
  (IF x # None THEN <<"p","r","o","v","i","d","e","d">> ELSE <<"n","o","t"," ","p","r","o","v","i","d","e","d">>)
    \o <<" ","(">> \o (IF x = <<>> THEN <<"e","m","p","t","y">> ELSE <<"h","a","s"," ","v","a","l","u","e">>) \o <<")">>

EnvState(x) == IF Truthy(x) THEN <<"s","e","t">> ELSE <<"n","o","t"," ","s","e","t">>

DebugInfo(a, e) ==
  << <<"D","e","b","u","g"," ","i","n","f","o",":">>,
     <<" "," ","C","L","I"," ","-","-","a","c","c","e","s","s","-","t","o","k","e","n",":"," ">> \o FlagState(a.access_token),
     <<" "," ","C","L","I"," ","-","-","s","e","c","r","e","t","-","i","d",":"," ">> \o FlagState(a.secret_id),
     <<" "," ","C","L","I"," ","-","-","s","e","c","r","e","t","-","n","a","m","e",":"," ">> \o FlagState(a.secret_name),
     <<" "," ","E","n","v"," ","B","W","S","_","A","C","C","E","S","S","_","T","O","K","E","N",":"," ">> \o EnvState(getenv(e, "BWS_ACCESS_TOKEN")),
     <<" "," ","E","n","v"," ","B","W","S","_","S","E","C","R","E","T","_","I","D",":"," ">> \o EnvState(getenv(e, "BWS_SECRET_ID")),
     <<" "," ","E","n","v"," ","B","W","S","_","S","E","C","R","E","T","_","N","A","M","E",":"," ">> \o EnvState(getenv(e, "BWS_SECRET_NAME")) >>

Authenticating == <<"A","u","t","h","e","n","t","i","c","a","t","i","n","g"," ","w","i","t","h"," ","a","c","c","e","s","s"," ","t","o","k","e","n",".",".",".">>

OrgSuffix(org_id) ==
  IF Truthy(org_id) THEN <<" ","(","o","r","g","a","n","i","z","a","t","i","o","n"," ","i","d","=">> \o org_id \o <<")",".",".",".">> ELSE <<".",".",".">>

\* The debug lines of find_secret_by_name once the listing tr[2] is in.
FoundLines(tr, secret_name) ==
  IF ~(Len(tr) >= 2 /\ HasData(tr[2].r)) THEN <<>>
  ELSE << <<"F","o","u","n","d"," ">> \o IntStr(Len(tr[2].r.data)) \o <<" ","s","e","c","r","e","t","s",","," ","s","e","a","r","c","h","i","n","g"," ","f","o","r"," ","n","a","m","e","/","k","e","y","=","'">>
            \o secret_name \o <<"'",".",".",".">> >>
       \o (IF Len(MatchingIds(tr[2].r.data, secret_name)) = 1
           THEN << <<"F","o","u","n","d"," ","s","e","c","r","e","t",":"," ","n","a","m","e","=","'">> \o secret_name \o <<"'",","," ","i","d","=","'">>
                     \o MatchingIds(tr[2].r.data, secret_name)[1] \o <<"'">> >>
           ELSE IF Len(MatchingIds(tr[2].r.data, secret_name)) > 1
           THEN << <<"F","o","u","n","d"," ">> \o IntStr(Len(MatchingIds(tr[2].r.data, secret_name)))
                     \o <<" ","s","e","c","r","e","t","s"," ","w","i","t","h"," ","n","a","m","e","/","k","e","y","=","'">> \o secret_name \o <<"'">> >>
           ELSE <<>>)

\* The id get_secret_value is about to fetch, or None when it raises first.
FetchedId(c, tr) ==
  IF c.identifier_type = S_id
  THEN IF is_uuid(c.secret_identifier) THEN c.secret_identifier ELSE None
  ELSE IF Len(tr) >= 2 /\ HasData(tr[2].r)
          /\ Len(MatchingIds(tr[2].r.data, c.secret_identifier)) = 1
  THEN MatchingIds(tr[2].r.data, c.secret_identifier)[1]
  ELSE None

\* The debug lines of a get run, from the calls tr it has made: those of
\* handle_get, get_secret_value and find_secret_by_name.
get_debug(a, e, c, tr) ==
  IF Truthy(a.secret_id) /\ Truthy(a.secret_name) THEN <<>>
  ELSE IF ~Truthy(c.access_token) \/ ~Truthy(c.secret_identifier) THEN DebugInfo(a, e)
  ELSE <<Authenticating>>
       \o (IF ~(Len(tr) >= 1 /\ Success(tr[1].r)) THEN <<>>
           ELSE (IF c.identifier_type = S_name
                 THEN << <<"S","e","a","r","c","h","i","n","g"," ","f","o","r"," ","s","e","c","r","e","t"," ","n","a","m","e","=","'">> \o c.secret_identifier \o <<"'">>
                           \o OrgSuffix(c.org_id) >>
                      \o (IF Truthy(c.org_id)
                          THEN << <<"L","i","s","t","i","n","g"," ","s","e","c","r","e","t","s"," ","t","o"," ","f","i","n","d"," ","s","e","c","r","e","t"," ","w","i","t","h"," ","n","a","m","e","/","k","e","y","=","'">>
                                    \o c.secret_identifier \o <<"'",".",".",".">> >>
                               \o FoundLines(tr, c.secret_identifier)
                          ELSE <<>>)
                 ELSE <<>>)
                \o (IF FetchedId(c, tr) # None
                    THEN << <<"F","e","t","c","h","i","n","g"," ","s","e","c","r","e","t"," ","i","d","=">> \o FetchedId(c, tr) \o OrgSuffix(c.org_id) >>
                    ELSE <<>>))

\* The first debug line of the other subcommands: create_secret,
\* resolve_secret_ids and list_secrets announce their login, handle_update
\* the resolution of --secret-name.  The lines after it go through the same
\* eprint and are not followed.
debug_lines(c, a, e, tr) ==
  IF c = "get" THEN get_debug(a, e, resolve_config(a, e), tr)
  ELSE IF c = "update"
  THEN IF Truthy(a.secret_name) /\ tr # <<>>
       THEN << <<"R","e","s","o","l","v","i","n","g"," ","s","e","c","r","e","t"," ","n","a","m","e"," ","'">> \o a.secret_name \o <<"'"," ","t","o"," ","I","D",".",".",".">> >>
       ELSE <<>>
  ELSE IF \E i \in 1..Len(tr) : tr[i].op = "login" THEN <<Authenticating>>
  ELSE <<>>

\* What a run has written when it ends: what its handler printed, and with
\* --debug the debug lines.
Output(c, a, e, res) ==
  IF a.debug
  THEN eprint([NoOutput EXCEPT !.out = IF res.k = "ret" THEN res.out ELSE <<>>],
              debug_lines(c, a, e, res.tr))
  ELSE [NoOutput EXCEPT !.out = IF res.k = "ret" THEN res.out ELSE <<>>]

----------------------------------------------------------------------------
(* The run of one invocation *)

Subcommands == {"get", "create", "update", "delete", "list"}

ArgsFor(c) ==
  CASE c = "get" -> GetArgs
    [] c = "create" -> CreateArgs
    [] c = "update" -> UpdateArgs
    [] c = "delete" -> DeleteArgs
    [] c = "list" -> ListArgs

\* main(): route to the handler of the subcommand.
main(c, a, e, rs) ==
  CASE c = "get" -> handle_get(a, e, rs)
    [] c = "create" -> handle_create(a, e, rs)
    [] c = "update" -> handle_update(a, e, rs)
    [] c = "delete" -> handle_delete(a, e, rs)
    [] c = "list" -> handle_list(a, e, rs)

Responses == [i \in 1..Len(trace) |-> trace[i].r]

\* The handler has run on until it returned or needs the response to another
\* call; an exception no handler catches ends the interpreter with status 1.
RunTo(res) ==
  /\ trace' = res.tr
  /\ IF res.k = "wait"
     THEN /\ phase' = "running"
          /\ pending' = res.call
          /\ UNCHANGED <<exitCode, stdout, stderr, caught>>
     ELSE /\ phase' = "done"
          /\ pending' = NoCall
          /\ exitCode' = IF res.k = "ret" THEN res.code ELSE 1
          /\ stdout' = Output(cmd, args, env, res).out
          /\ stderr' = Output(cmd, args, env, res).err
          /\ caught' = res.exc
  /\ UNCHANGED <<cmd, args, env, cfg, codes>>

Advance(rs) == RunTo(main(cmd, args, env, rs))

Waiting(op) == phase = "running" /\ pending.op = op

InitRun ==
  /\ phase = "ready"
  /\ trace = <<>>
  /\ pending = NoCall
  /\ exitCode = -1
  /\ stdout = <<>>
  /\ stderr = <<>>
  /\ caught = NoExc
  /\ cfg = None
  /\ codes = <<>>

Init ==
  /\ cmd \in Subcommands
  /\ args \in ArgsFor(cmd)
  /\ env \in RunEnvs(cmd)
  /\ store \in Stores
  /\ InitRun

HandleGet == phase = "ready" /\ cmd = "get" /\ Advance(<<>>) /\ UNCHANGED store

HandleCreate == phase = "ready" /\ cmd = "create" /\ Advance(<<>>) /\ UNCHANGED store

HandleUpdate == phase = "ready" /\ cmd = "update" /\ Advance(<<>>) /\ UNCHANGED store

HandleDelete == phase = "ready" /\ cmd = "delete" /\ Advance(<<>>) /\ UNCHANGED store

HandleList == phase = "ready" /\ cmd = "list" /\ Advance(<<>>) /\ UNCHANGED store

LoginReturns ==
  /\ Waiting("login")
  /\ \E r \in LoginOutcomes : Advance(Append(Responses, r))
  /\ UNCHANGED store

ListReturns ==
  /\ Waiting("list")
  /\ \E r \in ListOutcomes(store) : Advance(Append(Responses, r))
  /\ UNCHANGED store

GetReturns ==
  /\ Waiting("get")
  /\ \E r \in GetOutcomes(store, pending.arg) : Advance(Append(Responses, r))
  /\ UNCHANGED store

CreateReturns ==
  /\ Waiting("create")
  /\ \E r \in CreateOutcomes(pending.arg) :
       /\ Advance(Append(Responses, r))
       /\ store' = IF Success(r) THEN AfterCreate(store, pending.arg) ELSE store

UpdateReturns ==
  /\ Waiting("update")
  /\ \E r \in UpdateOutcomes(store, pending.arg) :
       /\ Advance(Append(Responses, r))
       /\ store' = IF Success(r) THEN AfterUpdate(store, pending.arg) ELSE store

DeleteReturns ==
  /\ Waiting("delete")
  /\ \E r \in DeleteOutcomes :
       /\ Advance(Append(Responses, r))
       /\ store' = IF Success(r) THEN AfterDelete(store, pending.arg) ELSE store

IsattyReturns ==
  /\ Waiting("isatty")
  /\ \E r \in IsattyOutcomes : Advance(Append(Responses, r))
  /\ UNCHANGED store

InputReturns ==
  /\ Waiting("input")
  /\ \E r \in InputOutcomes : Advance(Append(Responses, r))
  /\ UNCHANGED store

ReadReturns ==
  /\ Waiting("read")
  /\ \E r \in ReadOutcomes : Advance(Append(Responses, r))
  /\ UNCHANGED store

Next ==
  \/ HandleGet \/ HandleCreate \/ HandleUpdate \/ HandleDelete \/ HandleList
  \/ LoginReturns \/ ListReturns \/ GetReturns
  \/ CreateReturns \/ UpdateReturns \/ DeleteReturns
  \/ IsattyReturns \/ InputReturns \/ ReadReturns

Spec == Init /\ [][Next]_vars

----------------------------------------------------------------------------
(* resolve_config on its own: every combination of the four get flags        *)
(* (absent, empty, given) and of the four environment variables.             *)

O2 == Uuid("d")

CfgArgs ==
  { [NoArgs EXCEPT !.secret_id = i, !.secret_name = n, !.access_token = t, !.org_id = o] :
      i \in {None, <<>>, U1}, n \in {None, <<>>, K_db}, t \in {None, <<>>, TokCli},
      o \in {None, <<>>, O1} }

CfgEnvs ==
  { [BWS_ACCESS_TOKEN |-> t, BWS_SECRET_ID |-> i, BWS_SECRET_NAME |-> n, BWS_ORG_ID |-> o] :
      t \in {None, TokEnv}, i \in {None, U2}, n \in {None, K_DB}, o \in {None, O2} }

\* The flags of the other subcommands that bear on the token, the organization
\* id and the source label.
CfgArgsFor(c) ==
  IF c = "get" THEN CfgArgs
  ELSE { [NoArgs EXCEPT !.access_token = t, !.org_id = o,
                        !.secret_id = IF c = "delete" THEN (IF x THEN <<U1>> ELSE <<>>) ELSE None,
                        !.secret_name = IF c = "update" /\ x THEN K_db ELSE None,
                        !.key = IF c = "create" /\ x THEN K_db ELSE None,
                        !.key_pattern = IF c = "list" /\ x THEN K_db ELSE None] :
           t \in {None, <<>>, TokCli}, o \in {None, <<>>, O1}, x \in BOOLEAN }

InitCfg ==
  /\ cmd \in Subcommands
  /\ args \in CfgArgsFor(cmd)
  /\ env \in CfgEnvs
  /\ store = <<>>
  /\ InitRun

Resolved(c, config) ==
  /\ phase = "ready"
  /\ cmd = c
  /\ cfg' = config
  /\ phase' = "done"
  /\ UNCHANGED <<cmd, args, env, store, trace, pending, exitCode, stdout, stderr, caught, codes>>

ResolveConfig == Resolved("get", resolve_config(args, env))
ResolveCreateConfig == Resolved("create", resolve_create_config(args, env))
ResolveUpdateConfig == Resolved("update", resolve_update_config(args, env))
ResolveDeleteConfig == Resolved("delete", resolve_delete_config(args, env))
ResolveListConfig == Resolved("list", resolve_list_config(args, env))

NextCfg ==
  \/ ResolveConfig
  \/ ResolveCreateConfig
  \/ ResolveUpdateConfig
  \/ ResolveDeleteConfig
  \/ ResolveListConfig

SpecCfg == InitCfg /\ [][NextCfg]_vars

----------------------------------------------------------------------------
(* The except clauses on their own: one exception, handed to the except       *)
(* clauses of each of the five handlers.                                      *)

\* The tags of the taxonomy.
Tags ==
  {T_AUTH_ERROR, T_NOT_FOUND, T_ORG_ID_REQUIRED, T_INVALID_ID, T_LIST_ERROR,
   T_MULTIPLE_SECRETS, T_MULTIPLE_SECRETS_DELETE, T_MULTIPLE_SECRETS_UPDATE,
   T_DUPLICATE_SECRET, T_SDK_ERROR, T_PROJECT_ID_REQUIRED, T_VALUE_REQUIRED}

\* The tags the except clauses of each handler test for.
HandlerTags(h) ==
  CASE h = "get" ->
         {T_AUTH_ERROR, T_NOT_FOUND_OR_ERROR, T_NOT_FOUND, T_ORG_ID_REQUIRED, T_INVALID_ID,
          T_LIST_ERROR, T_MULTIPLE_SECRETS, T_SDK_ERROR}
    [] h = "create" ->
         {T_AUTH_ERROR, T_PROJECT_ID_REQUIRED, T_DUPLICATE_SECRET, T_LIST_ERROR,
          T_INVALID_ID, T_NOT_FOUND, T_SDK_ERROR}
    [] h = "update" ->
         {T_AUTH_ERROR, T_ORG_ID_REQUIRED, T_INVALID_ID, T_NOT_FOUND, T_LIST_ERROR,
          T_MULTIPLE_SECRETS, T_MULTIPLE_SECRETS_UPDATE, T_SDK_ERROR}
    [] h = "delete" ->
         {T_AUTH_ERROR, T_ORG_ID_REQUIRED, T_INVALID_ID, T_NOT_FOUND, T_LIST_ERROR,
          T_MULTIPLE_SECRETS, T_MULTIPLE_SECRETS_DELETE, T_SDK_ERROR}
    [] h = "list" -> {T_AUTH_ERROR, T_LIST_ERROR, T_INVALID_ID, T_SDK_ERROR}

S_Resource_gone == <<"R","e","s","o","u","r","c","e"," ","n","o","t"," ","f","o","u","n","d">>
S_no_such == <<"s","e","c","r","e","t"," ","n","o","t"," ","f","o","u","n","d">>

ErrTexts == {S_boom, S_HTTP_404, S_Not_Found, S_Resource_gone, S_no_such}

\* A failure: a RuntimeError with a tag of the taxonomy, a RuntimeError
\* without one, or any other exception.
ErrExceptions ==
  {RuntimeError(Tagged(t, m)) : t \in Tags, m \in ErrTexts}
    \cup {RuntimeError(m) : m \in ErrTexts} \cup {Exception(m) : m \in ErrTexts}

NoCodes == [h \in Handlers |-> -1]

InitErr ==
  /\ cmd = "get"
  /\ args = NoArgs
  /\ env = NoEnv
  /\ store = <<>>
  /\ phase = "ready"
  /\ trace = <<>>
  /\ pending = NoCall
  /\ exitCode = -1
  /\ stdout = <<>>
  /\ stderr = <<>>
  /\ caught \in ErrExceptions
  /\ cfg = None
  /\ codes = NoCodes

Caught(h, code) ==
  /\ codes[h] = -1
  /\ codes' = [codes EXCEPT ![h] = code]
  /\ UNCHANGED <<cmd, args, env, store, phase, trace, pending, exitCode, stdout, stderr, caught, cfg>>

GetExcept == Caught("get", handle_get_except(caught))
CreateExcept == Caught("create", handle_create_except(caught))
UpdateExcept == Caught("update", handle_update_except(caught))
DeleteExcept == Caught("delete", handle_delete_except(caught))
ListExcept == Caught("list", handle_list_except(caught))

NextErr == GetExcept \/ CreateExcept \/ UpdateExcept \/ DeleteExcept \/ ListExcept

SpecErr == InitErr /\ [][NextErr]_vars

----------------------------------------------------------------------------
(* is_uuid on its own: texts with the shape of a UUID and texts without it,  *)
(* bare and with one character before or after, and a value that is no text. *)

UuidBases ==
  { U1, P1_upper, Uuid("g"), NotAUuid, SubSeq(U1, 1, 35),
    SubSeq(U1, 1, 8) \o SubSeq(U1, 10, 36) \o <<"1">>,
    SubSeq(U1, 1, 8) \o <<"-">> \o SubSeq(U1, 9, 35) }

UuidAffixes == {<<>>, <<" ">>, <<"\n">>, <<"{">>, <<"}">>}

UuidInputs == {None} \cup {p \o b \o s : p \in UuidAffixes, b \in UuidBases, s \in UuidAffixes}

InitUuid ==
  /\ cmd = "get"
  /\ args \in {[NoArgs EXCEPT !.secret_id = v] : v \in UuidInputs}
  /\ env = NoEnv
  /\ store = <<>>
  /\ InitRun

\* is_uuid(value), the answer kept in cfg.
IsUuid ==
  /\ phase = "ready"
  /\ cfg' = is_uuid(args.secret_id)
  /\ phase' = "done"
  /\ UNCHANGED <<cmd, args, env, store, trace, pending, exitCode, stdout, stderr, caught, codes>>

NextUuid == IsUuid

SpecUuid == InitUuid /\ [][NextUuid]_vars

----------------------------------------------------------------------------
(* The handler runs with and without --debug, on a backend of at most two    *)
(* secrets with the key "db".                                                *)

DebugStores == {<<>>, <<Catalog[1]>>, <<Catalog[2]>>, <<Catalog[1], Catalog[2]>>}

InitDebug ==
  /\ cmd \in Subcommands
  /\ args \in {[a EXCEPT !.debug = d] : a \in ArgsFor(cmd), d \in BOOLEAN}
  /\ env \in RunEnvs(cmd)
  /\ store \in DebugStores
  /\ InitRun

SpecDebug == InitDebug /\ [][Next]_vars

----------------------------------------------------------------------------
(* Properties of the handler runs (specification Spec).                       *)

\* The calls of the run so far, the one waiting for its answer included.
Issued(op) == pending.op = op \/ \E i \in 1..Len(trace) : trace[i].op = op

\* The lines typed at a prompt that count as a yes.
YesLines == {<<"y">>, <<" ","Y","e","s"," ">>}

\* The user saw the prompt on a terminal and answered it with a yes.
AnsweredYes ==
  \E i \in 1..Len(trace) :
    /\ trace[i].op = "input"
    /\ trace[i].r.kind = "line"
    /\ trace[i].r.data \in YesLines
    /\ i > 1 /\ trace[i - 1].op = "isatty" /\ trace[i - 1].r.kind = "tty"

\* The prompt was refused: no terminal, or an answer that is no yes.
Refused ==
  \E i \in 1..Len(trace) :
    \/ trace[i].op = "isatty" /\ trace[i].r.kind # "tty"
    \/ trace[i].op = "input" /\ ~(trace[i].r.kind = "line" /\ trace[i].r.data \in YesLines)

\* C1: handle_delete issues the delete call only under --force or after a yes
\* typed at the prompt on a terminal; a run without --force whose prompt was
\* refused (no terminal, another answer, end of input, interrupt) ends with
\* exit code 2 and without a delete call.
C1_DeleteNeedsConfirmation ==
  cmd = "delete" =>
    /\ Issued("delete") => args.force \/ AnsweredYes
    /\ (phase = "done" /\ ~args.force /\ Refused) => exitCode = 2 /\ ~Issued("delete")

C1_Witness ==
  /\ cmd = "delete" /\ ~args.force /\ phase = "done"
  /\ AnsweredYes /\ Issued("delete") /\ exitCode = 0

\* C3 as stated: get, update and delete given both --secret-id and
\* --secret-name end with exit code 2 without a call to the backend.
C3_BothFlagsRejectedEverywhere ==
  (/\ cmd \in {"get", "update", "delete"}
   /\ IF cmd = "delete" THEN args.secret_id # <<>> ELSE Truthy(args.secret_id)
   /\ Truthy(args.secret_name))
  => /\ phase # "running"
     /\ phase = "done" => exitCode = 2 /\ trace = <<>>

\* C3: get and update given both --secret-id and --secret-name end with exit
\* code 2 without a call to the backend.
C3_BothFlagsRejected ==
  (cmd \in {"get", "update"} /\ Truthy(args.secret_id) /\ Truthy(args.secret_name))
  => /\ phase # "running"
     /\ phase = "done" => exitCode = 2 /\ trace = <<>>

C3_Witness ==
  /\ cmd = "get" /\ Truthy(args.secret_id) /\ Truthy(args.secret_name)
  /\ Truthy(args.access_token) /\ phase = "done" /\ exitCode = 2

\* The name the run looks up: the identifier resolve_config settled on for
\* get, --secret-name for update and delete.
RequestedName ==
  IF cmd = "get" THEN resolve_config(args, env).secret_identifier ELSE args.secret_name

\* The listing the name resolution received.
Listed(i) ==
  /\ cmd \in {"get", "update", "delete"}
  /\ trace[i].op = "list" /\ trace[i].r.kind = "ok"

\* The ids of the listed secrets that have an id and the requested key.
NamedIds(i) ==
  {trace[i].r.data[j].id : j \in {k \in 1..Len(trace[i].r.data) :
      trace[i].r.data[k].key = RequestedName /\ trace[i].r.data[k].id # None}}

\* The positions of the listed secrets with the requested key.
NamedEntries(i) ==
  {k \in 1..Len(trace[i].r.data) : trace[i].r.data[k].key = RequestedName}

Tag(t) == caught.cls = "RuntimeError" /\ StartsWith(caught.msg, t)

\* C4: once the name resolution of delete or update has found two or more
\* secrets, no delete or update call is issued and the run ends with exit
\* code 2, whatever --force and the --secret-id values are.
C4_MultipleMatchesRefused ==
  \A i \in 1..Len(trace) :
    (cmd \in {"delete", "update"} /\ Listed(i) /\ Cardinality(NamedIds(i)) >= 2)
    => /\ ~Issued("delete") /\ ~Issued("update")
       /\ phase = "done" => exitCode = 2

C4_Witness ==
  /\ cmd = "delete" /\ args.force /\ args.secret_id # <<>> /\ phase = "done"
  /\ \E i \in 1..Len(trace) : Listed(i) /\ Cardinality(NamedIds(i)) >= 2

\* The later calls of the run use the id the name was resolved to.
UsesId(i, id) ==
  /\ \A j \in (i + 1)..Len(trace) :
       /\ trace[j].op = "get" /\ cmd # "delete" => trace[j].arg = id
       /\ trace[j].op = "delete" => \E k \in 1..Len(trace[j].arg) : trace[j].arg[k] = id
       /\ trace[j].op = "update" => trace[j].arg.id = id
  /\ pending.op = "get" /\ cmd # "delete" => pending.arg = id
  /\ pending.op = "delete" => \E k \in 1..Len(pending.arg) : pending.arg[k] = id
  /\ pending.op = "update" => pending.arg.id = id
  /\ (cmd = "get" /\ phase = "running") => pending.op = "get"

\* C5 as stated: the name resolution decides by the number of listed secrets
\* whose key equals the requested name.
C5_DecidesByListedKeys ==
  \A i \in 1..Len(trace) : Listed(i) =>
    /\ NamedEntries(i) = {} => phase = "done" /\ Tag(T_NOT_FOUND) /\ exitCode = 4
    /\ Cardinality(NamedEntries(i)) = 1 =>
         \A k \in NamedEntries(i) : UsesId(i, trace[i].r.data[k].id)
    /\ (Cardinality(NamedEntries(i)) >= 2 /\ phase = "done") =>
         /\ Tag(IF cmd = "get" THEN T_MULTIPLE_SECRETS
                ELSE IF cmd = "update" THEN T_MULTIPLE_SECRETS_UPDATE
                ELSE T_MULTIPLE_SECRETS_DELETE)
         /\ exitCode = 2

\* C5: the name resolution decides by the number of listed secrets that have
\* an id and whose key is exactly (case-sensitively) the requested name: none
\* raises NOT_FOUND (exit code 4), one is the id the run goes on with, two or
\* more raise MULTIPLE_SECRETS (exit code 2).
C5_DecidesByExactKey ==
  \A i \in 1..Len(trace) : Listed(i) =>
    /\ NamedIds(i) = {} => phase = "done" /\ Tag(T_NOT_FOUND) /\ exitCode = 4
    /\ Cardinality(NamedIds(i)) = 1 => \A id \in NamedIds(i) : UsesId(i, id)
    /\ (Cardinality(NamedIds(i)) >= 2 /\ phase = "done") =>
         /\ Tag(IF cmd = "get" THEN T_MULTIPLE_SECRETS
                ELSE IF cmd = "update" THEN T_MULTIPLE_SECRETS_UPDATE
                ELSE T_MULTIPLE_SECRETS_DELETE)
         /\ exitCode = 2

\* A listing holding the requested key in another case only.
C5_Witness ==
  /\ cmd = "get" /\ phase = "done" /\ exitCode = 4
  /\ \E i \in 1..Len(trace) :
       /\ Listed(i) /\ NamedIds(i) = {}
       /\ \E k \in 1..Len(trace[i].r.data) :
            Lower(trace[i].r.data[k].key) = Lower(RequestedName)

\* The first answer to a fetch by id told that the secret has no project.
ProjectLess ==
  \E i \in 1..Len(trace) :
    /\ trace[i].op = "get" /\ trace[i].r.kind = "ok" /\ trace[i].r.data.project_id = None
    /\ \A j \in 1..(i - 1) : trace[j].op # "get"

\* C8: for a secret without a project, handle_update issues the update call
\* only when --project-ids is given and --force is set or a yes was typed at
\* the prompt on a terminal; every other run ends with exit code 2 and without
\* an update call.
C8_ProjectLessUpdateGuarded ==
  (cmd = "update" /\ ProjectLess) =>
    /\ Issued("update") => Truthy(args.project_ids) /\ (args.force \/ AnsweredYes)
    /\ (phase = "done" /\ ~(Truthy(args.project_ids) /\ (args.force \/ AnsweredYes)))
         => exitCode = 2 /\ ~Issued("update")

C8_Witness ==
  /\ cmd = "update" /\ ProjectLess /\ ~args.force /\ AnsweredYes
  /\ Issued("update") /\ phase = "done" /\ exitCode = 0

\* The update call at position j of the run, the call waiting for its answer
\* being at position Len(trace) + 1.
UpdateCalls == {j \in 1..Len(trace) : trace[j].op = "update"}
                 \cup (IF pending.op = "update" THEN {Len(trace) + 1} ELSE {})
UpdateArg(j) == IF j <= Len(trace) THEN trace[j].arg ELSE pending.arg

Supplied(x) == x # None /\ x # <<>>

TargetProjects ==
  IF args.project_ids = P1_upper THEN {P1}
  ELSE IF args.project_ids = P2 \o <<","," ">> \o P1 THEN {P2, P1}
  ELSE {}

\* The organization held, before the run, a secret with the new key in one of
\* the target projects.
DuplicateHeld ==
  \E k \in 1..Len(store) :
    /\ store[k].id # NewId
    /\ store[k].key = args.key
    /\ store[k].project_id \in TargetProjects

Untagged ==
  /\ caught.cls # "none"
  /\ ~\E t \in Tags \cup {T_NOT_FOUND_OR_ERROR} : StartsWith(caught.msg, t)

\* The text reads like a missing resource.
NotFoundText(msg) ==
  Contains(msg, <<"4","0","4">>) \/ Contains(Lower(msg), <<"n","o","t"," ","f","o","u","n","d">>) \/ Contains(msg, <<"R","e","s","o","u","r","c","e"," ","n","o","t"," ","f","o","u","n","d">>)

\* C7 as stated: in every handler a failure without a tag ends the run with
\* exit code 4 when its text contains "404", "not found" in any letter case
\* or "Resource not found", and with exit code 5 otherwise.
C7_UntaggedFailureCode ==
  (phase = "done" /\ Untagged) => exitCode = IF NotFoundText(caught.msg) THEN 4 ELSE 5

----------------------------------------------------------------------------
(* Properties of resolve_config (specification SpecCfg).                      *)

FromCliOrEnv(x, y) == IF Supplied(x) THEN x ELSE y

ExpectedIdentifier ==
  IF Supplied(args.secret_id) THEN args.secret_id
  ELSE IF Supplied(args.secret_name) THEN args.secret_name
  ELSE IF Supplied(env.BWS_SECRET_ID) THEN env.BWS_SECRET_ID
  ELSE env.BWS_SECRET_NAME

ExpectedKind ==
  IF Supplied(args.secret_id) THEN S_id
  ELSE IF Supplied(args.secret_name) THEN S_name
  ELSE IF Supplied(env.BWS_SECRET_ID) THEN S_id
  ELSE S_name

\* C2 as stated: resolve_config settles each field on its own, the flag's
\* value when it is non-empty and the environment's otherwise, and an
\* identifier given on the command line keeps its value and kind whether the
\* token comes from the command line or from the environment.
C2_FieldByField ==
  (/\ cmd = "get"
   /\ phase = "done"
   /\ ~(Supplied(args.secret_id) /\ Supplied(args.secret_name))
   /\ Supplied(FromCliOrEnv(args.access_token, env.BWS_ACCESS_TOKEN))
   /\ Supplied(ExpectedIdentifier))
  => /\ cfg.access_token = FromCliOrEnv(args.access_token, env.BWS_ACCESS_TOKEN)
     /\ cfg.secret_identifier = ExpectedIdentifier
     /\ cfg.identifier_type = ExpectedKind
     /\ cfg.org_id = FromCliOrEnv(args.org_id, env.BWS_ORG_ID)

----------------------------------------------------------------------------
(* Properties of the except clauses (specification SpecErr).                  *)

Calls(op) == {j \in 1..Len(trace) : trace[j].op = op}
               \cup (IF pending.op = op THEN {Len(trace) + 1} ELSE {})
ArgAt(j) == IF j <= Len(trace) THEN trace[j].arg ELSE pending.arg

\* The text of a UUID as the backend receives it: 8-4-4-4-12 lower-case
\* hexadecimal digits.
UuidText(s) ==
  /\ Len(s) = 36
  /\ \A i \in 1..36 :
       IF i \in {9, 14, 19, 24} THEN s[i] = "-"
       ELSE s[i] \in {"0", "1", "2", "3", "4", "5", "6", "7", "8", "9",
                      "a", "b", "c", "d", "e", "f"}

\* C11: every create call and every update call carries at least one project
\* UUID; an update without --project-ids carries exactly the project of the
\* secret as fetched, and when the secret has none the run ends with exit
\* code 2 and without an update call.
C11_ProjectSetNeverEmpty ==
  /\ \A j \in Calls("create") \cup Calls("update") :
       /\ Len(ArgAt(j).project_ids) >= 1
       /\ \A k \in 1..Len(ArgAt(j).project_ids) : UuidText(ArgAt(j).project_ids[k])
  /\ \A j \in Calls("update") :
       ~Supplied(args.project_ids) =>
         /\ j > 1 /\ trace[j - 1].op = "get" /\ trace[j - 1].r.kind = "ok"
         /\ ArgAt(j).project_ids = <<trace[j - 1].r.data.project_id>>
  /\ (cmd = "update" /\ ProjectLess /\ ~Supplied(args.project_ids)) =>
       /\ ~Issued("update")
       /\ phase = "done" => exitCode = 2

\* An update that names no project reaches the backend with the project the
\* secret is in.
C11_Witness ==
  /\ cmd = "update" /\ args.project_ids = None /\ phase = "done" /\ exitCode = 0
  /\ \E j \in 1..Len(trace) : trace[j].op = "update" /\ Len(trace[j].arg.project_ids) = 1

\* The ids --secret-id gives, in flag order, each value split at its commas
\* and trimmed.
DirectIds ==
  IF args.secret_id = <<U1>> THEN <<U1>>
  ELSE IF args.secret_id = <<U2 \o <<","," ">> \o U1, U2>> THEN <<U2, U1, U2>>
  ELSE args.secret_id

\* A sequence without the later occurrences of its elements.
FirstOccurrences(s) ==
  SelectSeq([i \in 1..Len(s) |-> IF \E k \in 1..(i - 1) : s[k] = s[i] THEN None ELSE s[i]],
            LAMBDA x : x # None)

\* The ids the run is to delete: the direct ids, then the id the listing
\* gives for --secret-name.
DeleteList ==
  FirstOccurrences(
    DirectIds \o (IF \E i \in 1..Len(trace) : Listed(i)
                  THEN <<CHOOSE id \in NamedIds(CHOOSE i \in 1..Len(trace) : Listed(i)) : TRUE>>
                  ELSE <<>>))

\* The arguments of the fetches by id made before position j.
LookupsBefore(j) ==
  LET gets == SelectSeq([i \in 1..(j - 1) |-> IF trace[i].op = "get" THEN i ELSE 0],
                        LAMBDA i : i # 0)
  IN  [k \in 1..Len(gets) |-> trace[gets[k]].arg]

\* C12: the delete call carries the direct ids followed by the id resolved
\* from --secret-name, later duplicates removed; the fetches by id made
\* before it are one per id of that list, in its order, and none follows it.
C12_DeleteListAndLookups ==
  cmd = "delete" =>
    \A j \in Calls("delete") :
      /\ ArgAt(j) = DeleteList
      /\ LookupsBefore(j) = ArgAt(j)
      /\ \A i \in Calls("get") : i < j

\* Two direct ids, one of them given twice, and a third id found by name.
C12_Witness ==
  /\ cmd = "delete" /\ phase = "done" /\ exitCode = 0
  /\ \E j \in 1..Len(trace) : trace[j].op = "delete" /\ trace[j].arg = <<U2, U1, U3>>

----------------------------------------------------------------------------
(* Properties of the resolve_*_config functions (specification SpecCfg).      *)

\* C13: resolve_create_config, resolve_update_config, resolve_delete_config
\* and resolve_list_config settle the access token and the organization id
\* each on its own: the flag's value when it is non-empty, the value of
\* BWS_ACCESS_TOKEN or BWS_ORG_ID otherwise, whatever the other fields and the
\* source label are.
C13_TokenAndOrgFieldByField ==
  (cmd \in {"create", "update", "delete", "list"} /\ phase = "done") =>
    /\ cfg.access_token = FromCliOrEnv(args.access_token, env.BWS_ACCESS_TOKEN)
    /\ cfg.org_id = FromCliOrEnv(args.org_id, env.BWS_ORG_ID)

\* The label says cli for a flag that is neither of the two, and both values
\* are the environment's.
C13_Witness ==
  /\ cmd = "delete" /\ phase = "done" /\ cfg.source = S_cli
  /\ args.access_token = <<>> /\ args.org_id = None
  /\ cfg.access_token = TokEnv /\ cfg.org_id = O2

\* ---------------------------------------------------------------------------
\* Exit codes of the handler runs
\* ---------------------------------------------------------------------------

ExitCodes == {0, 2, 3, 4, 5}

\* The answered calls of one kind.
Answered(op) == {j \in 1..Len(trace) : trace[j].op = op}

\* The backend carried out what the subcommand asks for: the fetch returned the
\* secret, the write was answered as successful, the listing was returned.
OperationSucceeded ==
  IF cmd = "get" THEN \E j \in Answered("get") : trace[j].r.kind = "ok"
  ELSE IF cmd = "list" THEN \E j \in Answered("list") : trace[j].r.kind = "ok"
  ELSE \E j \in Answered(cmd) : trace[j].r.kind = "ok"

\* A login that did not succeed: answered as unsuccessful, or raising.
FailedLogin(j) == j \in Answered("login") /\ trace[j].r.kind # "ok"

\* A login answered as unsuccessful, before the subcommand's write.
RefusedLogin(j) ==
  /\ j \in Answered("login") /\ trace[j].r.kind = "fail"
  /\ \A k \in 1..(j - 1) : trace[k].op # "update"

Stored(id) == \E i \in 1..Len(store) : store[i].id = id

\* The last answered call is a fetch by id that did not return the secret.
FinalFetchFailed ==
  /\ Len(trace) >= 1
  /\ trace[Len(trace)].op = "get" /\ trace[Len(trace)].r.kind # "ok"

\* C15: get ends with exit code 4 only when the secret is not found, the name
\* matching no listed secret or the backend holding no secret with the id; a
\* final fetch that fails although the backend holds the secret ends with 5.
C15_NotFoundOnlyWhenAbsent ==
  (cmd = "get" /\ phase = "done") =>
    /\ exitCode = 4 =>
         \/ \E i \in 1..Len(trace) : Listed(i) /\ NamedIds(i) = {}
         \/ FinalFetchFailed /\ ~Stored(trace[Len(trace)].arg)
    /\ (FinalFetchFailed /\ Stored(trace[Len(trace)].arg)) => exitCode = 5

BackendOps == {"login", "list", "get", "create", "update", "delete"}

\* C16: a create run without project ids, the flag absent or empty, issues no
\* backend call and ends with exit code 2.
C16_CreateWithoutProjects ==
  (cmd = "create" /\ ~Supplied(args.project_ids)) =>
    /\ \A op \in BackendOps : ~Issued(op)
    /\ phase = "done" => exitCode = 2

\* A create run with token, organization and key but an empty --project-ids
\* has ended.
C16_Witness ==
  /\ cmd = "create" /\ args.project_ids = <<>> /\ phase = "done"
  /\ Truthy(resolve_create_config(args, env).access_token)
  /\ Truthy(resolve_create_config(args, env).org_id)
  /\ Truthy(resolve_create_config(args, env).key)
  /\ exitCode = 2 /\ trace = <<>>

\* C18: an update without --value consults standard input before its update
\* call: unless standard input is a terminal it reads it, and piped content
\* that is not empty is the value the update call carries.
C18_UpdateUsesPipedValue ==
  \A j \in Calls("update") :
    ~Supplied(args.value) =>
      \/ \E i \in 1..(j - 1) : trace[i].op = "isatty" /\ trace[i].r.kind = "tty"
      \/ \E i \in 1..(j - 1) :
           /\ trace[i].op = "read"
           /\ Strip(trace[i].r.data) # <<>> => ArgAt(j).value = Strip(trace[i].r.data)

\* The text of a JSON string: a backslash before every double quote and every
\* backslash.
JsonText(s) ==
  Join([i \in 1..Len(s) |-> IF s[i] \in {"\"", "\\"} THEN <<"\\", s[i]>> ELSE <<s[i]>>], <<>>)

\* The line carries the member "name":"text", the text escaped for JSON.
HasField(line, name, text) ==
  Contains(line, <<"\"">> \o name \o <<"\"", ":", "\"">> \o JsonText(text) \o <<"\"">>)

\* The data of the last answered call, when it is of the kind op and brought data.
Last == trace[Len(trace)]

GetJsonOk ==
  Last.op = "get" /\ Last.r.kind = "ok" /\ HasField(stdout[1], <<"v","a","l","u","e">>, Last.r.data.value)

CreateJsonOk ==
  /\ Last.op = "create" /\ Last.r.kind = "ok"
  /\ HasField(stdout[1], <<"s","e","c","r","e","t","_","i","d">>, Last.r.data.id)
  /\ HasField(stdout[1], <<"k","e","y">>, args.key)
  /\ Truthy(args.note) => HasField(stdout[1], <<"n","o","t","e">>, args.note)

UpdateJsonOk ==
  /\ \E j \in Answered("update") :
       trace[j].r.kind = "ok" /\ HasField(stdout[1], <<"s","e","c","r","e","t","_","i","d">>, trace[j].r.data.id)
  /\ (Last.op = "get" /\ Last.r.kind = "ok") =>
       /\ HasField(stdout[1], <<"k","e","y">>, Last.r.data.key)
       /\ HasField(stdout[1], <<"v","a","l","u","e">>, Last.r.data.value)
       /\ Truthy(Last.r.data.note) => HasField(stdout[1], <<"n","o","t","e">>, Last.r.data.note)

ListJsonOk ==
  /\ ~Truthy(args.project_id) =>
       \A j \in Answered("list") : \A k \in 1..Len(trace[j].r.data) :
         (/\ Truthy(trace[j].r.data[k].id)
          /\ Truthy(args.key_pattern) => Contains(trace[j].r.data[k].key, args.key_pattern))
           => HasField(stdout[1], <<"k","e","y">>, trace[j].r.data[k].key)
  /\ \A j \in Answered("get") :
       (trace[j].r.kind = "ok" /\ trace[j].r.data.project_id = args.project_id) =>
         /\ HasField(stdout[1], <<"k","e","y">>, trace[j].r.data.key)
         /\ Truthy(trace[j].r.data.note) => HasField(stdout[1], <<"n","o","t","e">>, trace[j].r.data.note)

\* C20: the --json line of a successful get carries the value, that of a
\* successful create or update the secret id, and the key, note and value of
\* the get, create, update and list lines are written with every double quote
\* and every backslash preceded by a backslash.
C20_JsonFieldsEscaped ==
  (phase = "done" /\ exitCode = 0 /\ args.json) =>
    CASE cmd = "get" -> GetJsonOk
      [] cmd = "create" -> CreateJsonOk
      [] cmd = "update" -> UpdateJsonOk
      [] cmd = "delete" -> TRUE
      [] cmd = "list" -> ListJsonOk

\* ---------------------------------------------------------------------------
\* Properties of the runs with and without --debug (SpecDebug)
\* ---------------------------------------------------------------------------

\* The same invocation with --debug the other way round.
OtherArgs == [args EXCEPT !.debug = ~@]

\* The run res has gone through the same calls, waits on the same call or has
\* ended with the same exit code and the same standard output.
SameRun(res) ==
  /\ res.tr = trace
  /\ IF phase = "running" THEN res.k = "wait" /\ res.call = pending
     ELSE /\ res.k # "wait"
          /\ exitCode = (IF res.k = "ret" THEN res.code ELSE 1)
          /\ stdout = Output(cmd, OtherArgs, env, res).out

HexDigit(c) ==
  c \in {"0", "1", "2", "3", "4", "5", "6", "7", "8", "9",
         "a", "b", "c", "d", "e", "f", "A", "B", "C", "D", "E", "F"}

\* The whole text is 8, 4, 4, 4 and 12 hexadecimal digits with single hyphens
\* between the groups.
WholeUuid(s) ==
  /\ s # None
  /\ Len(s) = 36
  /\ \A i \in 1..36 : IF i \in {9, 14, 19, 24} THEN s[i] = "-" ELSE HexDigit(s[i])

\* C17: is_uuid answers true exactly for the texts that are, as a whole, a
\* UUID of 8-4-4-4-12 hexadecimal digits, and false for every other value.
C17_IsUuidExact ==
  phase = "done" => (cfg <=> WholeUuid(args.secret_id))

\* ---------------------------------------------------------------------------
\* Properties of the handler runs: name resolution, filters, effects
\* ---------------------------------------------------------------------------

\* The fetches by id answered after position i.
FetchesAfter(i, id) == {j \in Answered("get") : j > i /\ trace[j].arg = id}

\* C21: a MULTIPLE_SECRETS failure for n >= 2 matching secrets comes after
\* exactly one fetch per candidate, and its message names every candidate id
\* exactly once, whatever the fetches answered.
C21_EveryCandidateListed ==
  (phase = "done" /\ Tag(T_MULTIPLE_SECRETS)) =>
    \A i \in 1..Len(trace) :
      (Listed(i) /\ Cardinality(NamedIds(i)) >= 2) =>
        \A id \in NamedIds(i) :
          /\ Cardinality(FetchesAfter(i, id)) = 1
          /\ Cardinality(Occurrences(caught.msg, <<"S","e","c","r","e","t"," ","I","D",":"," ">> \o id \o <<",">>)) = 1

\* The run is to look a secret up by name, and neither --org-id nor BWS_ORG_ID
\* gives an organization id.
NameWithoutOrg ==
  /\ cmd \in {"get", "update", "delete"}
  /\ ~Supplied(FromCliOrEnv(args.org_id, env.BWS_ORG_ID))
  /\ IF cmd = "get" THEN resolve_config(args, env).identifier_type = S_name
     ELSE Supplied(args.secret_name)

\* C24 as stated: a lookup by name without an organization id ends with exit
\* code 2 and never issues the listing call.
C24_NameWithoutOrgExits2 ==
  NameWithoutOrg => /\ ~Issued("list")
                    /\ phase = "done" => exitCode = 2

\* C24: a lookup by name without an organization id never issues the listing
\* call; update and delete end with exit code 2 before any backend call, and
\* get, which logs in first, ends with exit code 2 unless that login did not
\* succeed.
C24_NameWithoutOrg ==
  NameWithoutOrg =>
    /\ ~Issued("list")
    /\ cmd # "get" => \A op \in BackendOps : ~Issued(op)
    /\ phase = "done" =>
         IF \E j \in Answered("login") : FailedLogin(j) THEN cmd = "get" /\ exitCode # 2
         ELSE exitCode = 2

C24_Witness ==
  /\ NameWithoutOrg /\ cmd = "get" /\ phase = "done" /\ exitCode = 2
  /\ Answered("login") # {} /\ Tag(T_ORG_ID_REQUIRED)

\* The answered reads of standard input, and what is left of the text read
\* once the whitespace at its ends is removed.
StdinReads == Answered("read")
PipedValue(i) == Strip(trace[i].r.data)

\* Standard input is a terminal, or was read and held only whitespace.
NoPipedValue ==
  \/ \E i \in Answered("isatty") : trace[i].r.kind = "tty"
  \/ \E i \in StdinReads : PipedValue(i) = <<>>

\* C25: create sends --value when it is non-empty and otherwise the text piped
\* to standard input without the whitespace at its ends; without --value, on a
\* terminal or with only whitespace piped, it ends with exit code 2
\* (VALUE_REQUIRED) and issues no backend call.
C25_CreateValue ==
  cmd = "create" =>
    /\ \A j \in Calls("create") :
         IF Supplied(args.value) THEN ArgAt(j).value = args.value
         ELSE \E i \in StdinReads : i < j /\ ArgAt(j).value = PipedValue(i)
    /\ Supplied(args.value) => StdinReads = {} /\ Answered("isatty") = {}
    /\ (~Supplied(args.value) /\ NoPipedValue) =>
         /\ \A op \in BackendOps : ~Issued(op)
         /\ phase = "done" => exitCode = 2 /\ Tag(T_VALUE_REQUIRED)

C25_Witness ==
  /\ cmd = "create" /\ phase = "done" /\ exitCode = 0 /\ args.value = <<>>
  /\ \E j \in Answered("create") : trace[j].arg.value = <<"s","4">>

\* The secrets of the backend that list is to return, in listing order: those
\* with an id, whose key contains --key-pattern when it is given, and whose
\* project is --project-id when it is given; each as the entry list_secrets
\* builds for it.
PassesFilters(s) ==
  /\ Truthy(s.id)
  /\ Truthy(args.key_pattern) => Truthy(s.key) /\ Contains(s.key, args.key_pattern)
  /\ Truthy(args.project_id) => s.project_id = UuidStr(args.project_id)

ExpectedEntry(s) ==
  [id |-> s.id, key |-> s.key,
   project_id |-> IF Truthy(args.project_id) THEN s.project_id ELSE None,
   note |-> IF Truthy(args.project_id) THEN s.note ELSE None]

ExpectedList ==
  LET kept == SelectSeq(store, PassesFilters)
  IN  [i \in 1..Len(kept) |-> ExpectedEntry(kept[i])]

\* The output of a list run that returned the secrets given.
ListOutput(secrets) ==
  IF args.json THEN <<format_secrets_json(secrets)>> ELSE format_secrets_table(secrets)

\* The secrets left by the key filter, each looked up once, in order.
LookedUpOnce ==
  LookupsBefore(Len(trace) + 1) =
    LET kept == SelectSeq(store, LAMBDA s :
                  /\ Truthy(s.id)
                  /\ Truthy(args.key_pattern) => Truthy(s.key) /\ Contains(s.key, args.key_pattern))
    IN  [i \in 1..Len(kept) |-> kept[i].id]

\* C26: a list run that succeeds returns, in listing order, exactly the
\* secrets with an id whose key contains --key-pattern and whose project is
\* --project-id, after one lookup per secret the key filter left.
C26_ListReturnsExactlyMatches ==
  (cmd = "list" /\ phase = "done" /\ exitCode = 0) =>
    /\ stdout = ListOutput(ExpectedList)
    /\ Truthy(args.project_id) => LookedUpOnce

\* A create, update or delete call the backend answered as successful.
WriteSucceeded ==
  \E j \in 1..Len(trace) :
    trace[j].op \in {"create", "update", "delete"} /\ Success(trace[j].r)

\* C27: a create, update or delete run that ends with a non-zero exit code
\* had no create, update or delete call answered as successful.
C27_FailedRunChangesNothing ==
  (cmd \in {"create", "update", "delete"} /\ phase = "done" /\ exitCode # 0) => ~WriteSucceeded

\* A lookup of the existence check, which follows the login of delete_secret,
\* that did not return the secret: answered as unsuccessful, answered without
\* data, or raising.
FailedLookups ==
  {i \in Answered("get") :
     /\ Cardinality({k \in Answered("login") : k < i}) = 2
     /\ trace[i].r.kind # "ok"}

\* The id was looked up before call j and the lookup returned the secret.
PassedBefore(j, id) ==
  \E i \in Answered("get") : i < j /\ trace[i].arg = id /\ trace[i].r.kind = "ok"

\* C28: a delete run in which the lookup of one id fails issues no delete call
\* and ends with exit code 4; the list a delete call carries is not empty, has
\* no id twice, and holds only ids in UUID format whose lookup returned the
\* secret.
C28_DeleteAllOrNothing ==
  cmd = "delete" =>
    /\ FailedLookups # {} =>
         /\ ~Issued("delete")
         /\ phase = "done" => exitCode = 4
    /\ \A j \in Calls("delete") :
         /\ ArgAt(j) # <<>>
         /\ \A k, l \in 1..Len(ArgAt(j)) : ArgAt(j)[k] = ArgAt(j)[l] => k = l
         /\ \A k \in 1..Len(ArgAt(j)) :
              WholeUuid(ArgAt(j)[k]) /\ PassedBefore(j, ArgAt(j)[k])

\* Of three ids to delete, two exist and one does not: nothing is deleted.
C28_Witness ==
  /\ cmd = "delete" /\ phase = "done" /\ exitCode = 4
  /\ Cardinality(Answered("get")) = 3 /\ Cardinality(FailedLookups) = 1
  /\ ~Issued("delete")

\* Each login opens a new client: the client in use at call j is the one of
\* the last login before j.
ClientLogin(j) ==
  CHOOSE i \in Answered("login") : i < j /\ \A k \in Answered("login") : k < j => k <= i

\* C29 as stated: a list, get, create, update or delete call is issued only
\* on a client whose login was answered as successful; a run with a login
\* that did not succeed ends with exit code 3 and issues no call after it.
C29_LoginFirstAndExit3 ==
  /\ \A op \in BackendOps \ {"login"} : \A j \in Calls(op) :
       /\ \E i \in Answered("login") : i < j
       /\ trace[ClientLogin(j)].r.kind = "ok"
  /\ \A i \in Answered("login") :
       FailedLogin(i) => /\ Len(trace) = i /\ pending.op = "none"
                         /\ phase = "done" => exitCode = 3

\* C29: a list, get, create, update or delete call is issued only on a client
\* whose login was answered as successful, and no call follows a login that
\* did not succeed; the run then ends with exit code 3 when the login was
\* answered as unsuccessful before the subcommand's write, with exit code 0
\* when it is the login update --json makes after its update, and with 4 or 5
\* when the login raised.
C29_LoginFirst ==
  /\ \A op \in BackendOps \ {"login"} : \A j \in Calls(op) :
       /\ \E i \in Answered("login") : i < j
       /\ trace[ClientLogin(j)].r.kind = "ok"
  /\ \A i \in Answered("login") :
       FailedLogin(i) =>
         /\ Len(trace) = i /\ pending.op = "none"
         /\ phase = "done" =>
              IF trace[i].r.kind = "fail"
              THEN exitCode = (IF RefusedLogin(i) THEN 3 ELSE 0)
              ELSE exitCode \in {4, 5}

\* The second client of a delete run is refused after the first one listed
\* the secrets.
C29_Witness ==
  /\ cmd = "delete" /\ phase = "done" /\ exitCode = 3
  /\ Cardinality(Answered("login")) = 2 /\ Answered("list") # {}
  /\ trace[Len(trace)].op = "login" /\ trace[Len(trace)].r.kind = "fail"

\* The last answered call of one kind.
LastCall(op) == CHOOSE j \in Answered(op) : \A k \in Answered(op) : k <= j

\* C30: a run that ends with a non-zero exit code has written nothing to
\* standard output; a run without --json that ends with exit code 0 has
\* written exactly the secret's value (get), the secret's id (create, update),
\* or the deleted ids one per line (delete).
C30_StdoutOnlyOnSuccess ==
  phase = "done" =>
    /\ exitCode # 0 => stdout = <<>>
    /\ (exitCode = 0 /\ ~args.json) =>
         CASE cmd = "get" -> stdout = <<trace[LastCall("get")].r.data.value>>
           [] cmd = "create" -> stdout = <<trace[LastCall("create")].r.data.id>>
           [] cmd = "update" -> stdout = <<trace[LastCall("update")].r.data.id>>
           [] cmd = "delete" -> stdout = trace[LastCall("delete")].arg
           [] OTHER -> TRUE

C30_Witness ==
  /\ cmd = "delete" /\ phase = "done" /\ exitCode = 0 /\ ~args.json
  /\ Len(stdout) = 3

\* ---------------------------------------------------------------------------
\* Properties of resolve_config, continued (SpecCfg)
\* ---------------------------------------------------------------------------

\* The identifier and kind each flag or variable would give, for those that
\* carry a value.
IdentifierSources ==
  {p \in {<<args.secret_id, S_id>>, <<args.secret_name, S_name>>,
          <<env.BWS_SECRET_ID, S_id>>, <<env.BWS_SECRET_NAME, S_name>>} : Supplied(p[1])}

\* The identifier returned has the kind of a flag or variable that carries it.
KindMatchesSource ==
  cfg.secret_identifier # None =>
    <<cfg.secret_identifier, cfg.identifier_type>> \in IdentifierSources

\* C22: for get without an identifier flag and with a token available,
\* BWS_SECRET_ID gives the identifier with kind id, else BWS_SECRET_NAME gives
\* it with kind name; and an identifier returned always has the kind of the
\* flag or variable it came from.
C22_EnvIdentifierKind ==
  (cmd = "get" /\ phase = "done") =>
    /\ KindMatchesSource
    /\ (/\ ~Supplied(args.secret_id) /\ ~Supplied(args.secret_name)
        /\ Supplied(FromCliOrEnv(args.access_token, env.BWS_ACCESS_TOKEN))) =>
         /\ Supplied(env.BWS_SECRET_ID) =>
              cfg.secret_identifier = env.BWS_SECRET_ID /\ cfg.identifier_type = S_id
         /\ (~Supplied(env.BWS_SECRET_ID) /\ Supplied(env.BWS_SECRET_NAME)) =>
              cfg.secret_identifier = env.BWS_SECRET_NAME /\ cfg.identifier_type = S_name

\* A non-empty access token, respectively secret identifier, is given by a
\* flag or by the environment.
TokenAvailable == Supplied(FromCliOrEnv(args.access_token, env.BWS_ACCESS_TOKEN))
IdentifierAvailable == IdentifierSources # {}

\* resolve_config returned its 'missing' result.
IsMissing ==
  /\ cfg.access_token = None
  /\ cfg.secret_identifier = None
  /\ cfg.org_id = None
  /\ cfg.identifier_type = None

\* C23: for get, resolve_config returns the 'missing' result exactly when no
\* non-empty access token or no non-empty secret identifier is available from
\* the flags and the environment taken together.
C23_MissingExactlyWhenUnavailable ==
  (cmd = "get" /\ phase = "done") =>
    (IsMissing <=> ~(TokenAvailable /\ IdentifierAvailable))

====
